---------------------------- MODULE Spec2Model ----------------------------
(***************************************************************************)
(* Nexus Guard MUFG browser extension: the background service worker      *)
(* (Coordination Agent), the content script (Page Observer) and the popup *)
(* (Interaction Panel).  Every action is the code that runs between two   *)
(* suspension points (await) of one handler; JavaScript runs it without   *)
(* interruption.  Strings are tuples of one-character strings, so that    *)
(* toLowerCase, includes and RegExp.test are computed on characters.      *)
(* Confidences and probabilities are percentages (0.8 is 80).             *)
(***************************************************************************)
EXTENDS Integers, Sequences, FiniteSets, TLC

(* --------------------------- property names -------------------------- *)

\* the property names of the objects the scripts build.  TLC keeps the
\* fields of a record in the order the names are first mentioned; naming
\* them here once lets every record below be written in the order it is
\* kept in
ObjectKeys == DOMAIN [
    prediction |-> TRUE, probability |-> TRUE, undefined |-> TRUE,
    ctx |-> TRUE, origin |-> TRUE, req |-> TRUE, arg |-> TRUE, pc |-> TRUE,
    steps |-> TRUE, outcomes |-> TRUE, notes |-> TRUE, sent |-> TRUE,
    ret |-> TRUE, threw |-> TRUE, shot |-> TRUE, api |-> TRUE,
    page |-> TRUE, threats |-> TRUE, endpoint |-> TRUE, obj |-> TRUE, began |-> TRUE,
    success |-> TRUE, message |-> TRUE, confidence |-> TRUE, error |-> TRUE,
    apiResult |-> TRUE, text |-> TRUE, title |-> TRUE, created |-> TRUE,
    id |-> TRUE, screenshot |-> TRUE, result |-> TRUE,
    basicAnalysis |-> TRUE, screenshotSaved |-> TRUE,
    lastScreenshotResult |-> TRUE, status |-> TRUE, timestamp |-> TRUE,
    url |-> TRUE, color |-> TRUE, analysis |-> TRUE, newValue |-> TRUE,
    apiEndpoint |-> TRUE, notifications |-> TRUE, lastScanResult |-> TRUE,
    links |-> TRUE, action |-> TRUE, settings |-> TRUE, content |-> TRUE,
    type |-> TRUE, tabId |-> TRUE, menuItemId |-> TRUE,
    selectionText |-> TRUE, linkUrl |-> TRUE, srcUrl |-> TRUE,
    element |-> TRUE,
    writes |-> TRUE, files |-> TRUE, results |-> TRUE, resultStatus |-> TRUE,
    name |-> TRUE, file |-> TRUE, is_spoofed |-> TRUE,
    severity |-> TRUE, description |-> TRUE, href |-> TRUE,
    tagName |-> TRUE, children |-> TRUE, addedNodes |-> TRUE,
    previous |-> TRUE
]

(* ------------------------------ strings ------------------------------ *)

\* String.prototype.toLowerCase on one character
LowerChar(c) ==
    CASE c = "A" -> "a"
      [] c = "B" -> "b"
      [] c = "C" -> "c"
      [] c = "D" -> "d"
      [] c = "E" -> "e"
      [] c = "F" -> "f"
      [] c = "G" -> "g"
      [] c = "H" -> "h"
      [] c = "I" -> "i"
      [] c = "J" -> "j"
      [] c = "K" -> "k"
      [] c = "L" -> "l"
      [] c = "M" -> "m"
      [] c = "N" -> "n"
      [] c = "O" -> "o"
      [] c = "P" -> "p"
      [] c = "Q" -> "q"
      [] c = "R" -> "r"
      [] c = "S" -> "s"
      [] c = "T" -> "t"
      [] c = "U" -> "u"
      [] c = "V" -> "v"
      [] c = "W" -> "w"
      [] c = "X" -> "x"
      [] c = "Y" -> "y"
      [] c = "Z" -> "z"
      [] OTHER -> c

\* String.prototype.toLowerCase
ToLowerCase(s) == [i \in 1..Len(s) |-> LowerChar(s[i])]

\* String.prototype.includes: k occurs in s as a contiguous substring
Includes(s, k) ==
    \E i \in 0..(Len(s) - Len(k)) : SubSeq(s, i + 1, i + Len(k)) = k

\* String.prototype.substring(0, n)
Substring0(s, n) == SubSeq(s, 1, IF Len(s) < n THEN Len(s) ELSE n)

\* String.prototype.trim on the blank character
RECURSIVE TrimLeft(_)
TrimLeft(s) == IF s # <<>> /\ Head(s) = " " THEN TrimLeft(Tail(s)) ELSE s

RECURSIVE TrimRight(_)
TrimRight(s) ==
    IF s # <<>> /\ s[Len(s)] = " " THEN TrimRight(SubSeq(s, 1, Len(s) - 1)) ELSE s

Trim(s) == TrimRight(TrimLeft(s))

(* -------------------- background.js: pure helpers -------------------- *)

\* quickKeywordScan: the vocabulary, in the order of the array literal
suspiciousKeywords == <<
    <<"u", "r", "g", "e", "n", "t">>,
    <<"i", "m", "m", "e", "d", "i", "a", "t", "e", " ", "a", "c", "t", "i", "o", "n">>,
    <<"a", "c", "c", "o", "u", "n", "t", " ", "s", "u", "s", "p", "e", "n", "d", "e", "d">>,
    <<"v", "e", "r", "i", "f", "y", " ", "n", "o", "w">>,
    <<"c", "l", "i", "c", "k", " ", "h", "e", "r", "e">>,
    <<"l", "i", "m", "i", "t", "e", "d", " ", "t", "i", "m", "e">>,
    <<"f", "r", "e", "e", " ", "m", "o", "n", "e", "y">>,
    <<"l", "o", "t", "t", "e", "r", "y", " ", "w", "i", "n", "n", "e", "r">>,
    <<"b", "a", "n", "k", " ", "a", "c", "c", "o", "u", "n", "t">>,
    <<"c", "r", "e", "d", "i", "t", " ", "c", "a", "r", "d">>,
    <<"s", "o", "c", "i", "a", "l", " ", "s", "e", "c", "u", "r", "i", "t", "y">>,
    <<"p", "a", "s", "s", "w", "o", "r", "d">>,
    <<"l", "o", "g", "i", "n">>,
    <<"s", "i", "g", "n", " ", "i", "n">>,
    <<"u", "p", "d", "a", "t", "e", " ", "n", "o", "w">>,
    <<"s", "e", "c", "u", "r", "i", "t", "y", " ", "a", "l", "e", "r", "t">>,
    <<"b", "i", "t", "c", "o", "i", "n">>,
    <<"c", "r", "y", "p", "t", "o">>,
    <<"i", "n", "v", "e", "s", "t", "m", "e", "n", "t", " ", "o", "p", "p", "o", "r", "t", "u", "n", "i", "t", "y">>,
    <<"a", "c", "t", " ", "n", "o", "w">>,
    <<"d", "o", "n", "'", "t", " ", "w", "a", "i", "t">>,
    <<"h", "u", "r", "r", "y">>,
    <<"e", "x", "p", "i", "r", "e", "s">>,
    <<"d", "e", "a", "d", "l", "i", "n", "e">>
>>

\* isSuspiciousURL / analyzeLinks: the RegExp literals /x\.y/i, each a
\* case-insensitive search for the literal text (lower-cased here)
suspiciousPatterns == <<
    <<"b", "i", "t", ".", "l", "y">>,
    <<"t", "i", "n", "y", "u", "r", "l", ".", "c", "o", "m">>,
    <<"g", "o", "o", ".", "g", "l">>,
    <<"t", ".", "c", "o">>,
    <<"i", "s", ".", "g", "d">>,
    <<"c", "l", "i", ".", "g", "s">>,
    <<"o", "w", ".", "l", "y">>,
    <<"s", "u", ".", "p", "r">>,
    <<"t", "w", "u", "r", "l", ".", "n", "l">>,
    <<"s", "n", "i", "p", "u", "r", "l", ".", "c", "o", "m">>,
    <<"s", "h", "o", "r", "t", ".", "t", "o">>,
    <<"b", "u", "d", "u", "r", "l", ".", "c", "o", "m">>,
    <<"p", "i", "n", "g", ".", "f", "m">>,
    <<"t", "r", ".", "i", "m">>,
    <<"b", "k", "i", "t", "e", ".", "c", "o", "m">>,
    <<"s", "n", "i", "p", "r", ".", "c", "o", "m">>,
    <<"s", "h", "o", "r", "t", "i", "e", ".", "i", "o">>,
    <<"s", "h", "o", "r", "t", ".", "i", "o">>,
    <<"r", "b", ".", "g", "y">>,
    <<"t", "i", "n", "y", ".", "c", "c">>
>>

str_suspicious == <<"s", "u", "s", "p", "i", "c", "i", "o", "u", "s">>
str_phishing == <<"p", "h", "i", "s", "h", "i", "n", "g">>
str_scam == <<"s", "c", "a", "m">>
str_malware == <<"m", "a", "l", "w", "a", "r", "e">>

\* quickKeywordScan(text): the vocabulary entries found in the text, in the
\* order of the vocabulary
quickKeywordScan(text) ==
    LET lowerText == ToLowerCase(text)
    IN  SelectSeq(suspiciousKeywords,
                  LAMBDA keyword : Includes(lowerText, ToLowerCase(keyword)))

\* suspiciousPatterns.some(pattern => pattern.test(url)), every pattern /.../i
SomePatternTests(url) ==
    \E i \in 1..Len(suspiciousPatterns) :
        Includes(ToLowerCase(url), suspiciousPatterns[i])

\* isSuspiciousURL(url) of the service worker
isSuspiciousURL(url) ==
    \/ SomePatternTests(url)
    \/ Includes(url, str_suspicious)
    \/ Includes(url, str_phishing)
    \/ Includes(url, str_scam)
    \/ Includes(url, str_malware)

\* analyzeLinks(links): links.filter(...) of the service worker
analyzeLinks(links) ==
    SelectSeq(links,
              LAMBDA link : \/ SomePatternTests(link)
                            \/ Includes(link, str_suspicious)
                            \/ Includes(link, str_phishing)
                            \/ Includes(link, str_scam))

(* ---------------------- content.js: pure helpers ---------------------- *)

\* analyzeTextThreats: the vocabulary of the content script, the first
\* sixteen entries of the one of quickKeywordScan
observerKeywords == SubSeq(suspiciousKeywords, 1, 16)

\* analyzeTextThreats: the alternatives of the three RegExp literals
\* /(?:a|b|...)/gi, lower-cased
urgencyPatterns == <<
    <<<<"i", "m", "m", "e", "d", "i", "a", "t", "e">>,
      <<"u", "r", "g", "e", "n", "t">>,
      <<"a", "s", "a", "p">>,
      <<"r", "i", "g", "h", "t", " ", "n", "o", "w">>,
      <<"q", "u", "i", "c", "k", "l", "y">>>>,
    <<<<"l", "i", "m", "i", "t", "e", "d", " ", "t", "i", "m", "e">>,
      <<"e", "x", "p", "i", "r", "e", "s">>,
      <<"d", "e", "a", "d", "l", "i", "n", "e">>>>,
    <<<<"a", "c", "t", " ", "n", "o", "w">>,
      <<"d", "o", "n", "'", "t", " ", "w", "a", "i", "t">>,
      <<"h", "u", "r", "r", "y">>>>>>

\* text.match(pattern) for /(?:a|b|...)/g from index i on: how many
\* matches it returns; the search goes left to right, takes the first
\* alternative that matches where it stands and goes on after the match
RECURSIVE MatchCount(_, _, _)
MatchCount(text, alternatives, i) ==
    IF i > Len(text) THEN 0
    ELSE LET hits == {a \in 1..Len(alternatives) :
                        /\ i + Len(alternatives[a]) - 1 <= Len(text)
                        /\ SubSeq(text, i, i + Len(alternatives[a]) - 1) = alternatives[a]}
         IN  IF hits = {} THEN MatchCount(text, alternatives, i + 1)
             ELSE LET a == CHOOSE x \in hits : \A y \in hits : x <= y
                  IN  1 + MatchCount(text, alternatives, i + Len(alternatives[a]))

\* the 'excessive_urgency' finding; `description` holds what the text of a
\* finding quotes: the keyword, the link, nothing for this one
UrgencyFinding ==
    [type |-> "excessive_urgency", severity |-> "high", description |-> <<>>]

\* analyzeTextThreats, second part: one finding for each pattern with more
\* than two matches
urgencyThreats(text) ==
    LET often == SelectSeq(urgencyPatterns,
                    LAMBDA alternatives : MatchCount(ToLowerCase(text), alternatives, 1) > 2)
    IN  [i \in 1..Len(often) |-> UrgencyFinding]

\* analyzeTextThreats, first part: one finding for each vocabulary entry
\* the lower-cased text includes, in the order of the vocabulary
keywordThreats(text) ==
    LET found == SelectSeq(observerKeywords,
                    LAMBDA keyword : Includes(ToLowerCase(text), ToLowerCase(keyword)))
    IN  [i \in 1..Len(found) |->
            [type |-> "suspicious_keyword", severity |-> "medium",
             description |-> found[i]]]

\* analyzeTextThreats(text)
analyzeTextThreats(text) == keywordThreats(text) \o urgencyThreats(text)

\* ContentAnalyzer.isSuspiciousURL(url)
observerIsSuspiciousURL(url) ==
    \/ \E i \in 1..Len(suspiciousPatterns) :
          Includes(ToLowerCase(url), suspiciousPatterns[i])
    \/ Includes(url, str_suspicious)
    \/ Includes(url, str_phishing)
    \/ Includes(url, str_scam)
    \/ Includes(url, str_malware)

\* analyzeLinkThreats(links) for links whose text names no brand, so that
\* isLinkMismatch is false: one 'suspicious_link' finding for each link
\* isSuspiciousURL flags
analyzeLinkThreats(links) ==
    LET flagged == SelectSeq(links, LAMBDA link : observerIsSuspiciousURL(link.href))
    IN  [i \in 1..Len(flagged) |->
            [type |-> "suspicious_link", severity |-> "high",
             description |-> flagged[i].href]]

\* analyzePageContent() on a document without forms: analysis.threats
analyzePageContent(document) ==
    (IF document.text # <<>> THEN analyzeTextThreats(document.text) ELSE <<>>)
        \o analyzeLinkThreats(document.links)

\* a document with no visible text and no link
EmptyDocument == [text |-> <<>>, links |-> <<>>]

(* ------------------------------- bounds ------------------------------- *)

\* events (requests, menu clicks) dispatched per behaviour
MaxEvents == 1

\* milliseconds the clock advances per behaviour
MaxNow == 1

(* ------------------------------- inputs ------------------------------- *)

\* listeners one event can have: initializeServiceWorker() is called at
\* script load and again by the onStartup listener, and each call runs
\* setupEventListeners(); the content script registers two onMessage
\* listeners as well
MaxListeners == 2

\* the handler invocations of the event being handled, one per listener
Tasks == 1..MaxListeners

DefaultEndpoint == "http://127.0.0.1:5000"

Endpoints == {DefaultEndpoint, "http://x"}

\* the words the sampled texts are made of
Words == {
    <<"U", "R", "G", "E", "N", "T">>,
    <<"c", "l", "i", "c", "k", " ", "h", "e", "r", "e">>,
    <<"h", "e", "l", "l", "o">>
}

\* texts a page or a selection can hold: nothing, or one of the words
Texts == {<<>>} \cup Words

Titles == {<<>>, <<"L", "o", "g", "i", "n">>}

Urls == {
    <<"h", "t", "t", "p", "s", ":", "/", "/", "b", "i", "t", ".", "l", "y", "/", "a", "b", "c">>,
    <<"h", "t", "t", "p", "s", ":", "/", "/", "e", "x", "a", "m", "p", "l", "e", ".", "c", "o", "m", "/", "l", "o", "g", "i", "n">>,
    <<"h", "t", "t", "p", "s", ":", "/", "/", "e", "x", "a", "m", "p", "l", "e", ".", "c", "o", "m", "/", "s", "c", "a", "m">>
}

TabUrl == <<"h", "t", "t", "p", "s", ":", "/", "/", "e", "x", "a", "m", "p", "l", "e", ".", "c", "o", "m", "/", "p", "a", "g", "e">>

\* what the remote classifier answers: {prediction: 0|1, probability}
Predictions == {0, 1}

Probabilities == {7, 93}

ApiResults == [prediction : Predictions, probability : Probabilities]

\* status codes of a non-2xx answer
ErrorStatuses == {404, 500}

\* a JavaScript object is a function from its keys to their values
EmptyObj == [key \in {} |-> TRUE]

\* { ...a, ...b }
Merge(a, b) ==
    [key \in DOMAIN a \cup DOMAIN b |-> IF key \in DOMAIN b THEN b[key] ELSE a[key]]

Has(obj, key) == key \in DOMAIN obj

\* undefined
Undefined == [undefined |-> TRUE]

(* ------------------------------- state -------------------------------- *)

VARIABLES
    settings,     \* the service worker's global `settings`
    initPc,       \* position of each initializeServiceWorker() call
    listeners,    \* how many times setupEventListeners() has registered
    timers,       \* how many setInterval health timers startMonitoring() set
    syncStore,    \* chrome.storage.sync
    localStore,   \* chrome.storage.local
    changes,      \* storage.onChanged events not yet delivered to the worker
    badge,        \* the action badge: [text, color]
    menus,        \* ids registered with chrome.contextMenus
    menuJobs,     \* removeAll() calls the browser has not run yet
    menuCallbacks,\* removeAll() calls it has run whose callback has not run
    observer,     \* the content script: its init position and settings
    panel,        \* the popup: its position, settings, store writes and batch
    tasks,        \* the handler invocations of the current event
    events,       \* how many events have been dispatched
    now           \* Date.now()

vars ==
    <<settings, initPc, listeners, timers, syncStore, localStore, changes,
      badge, menus, menuJobs, menuCallbacks, observer, panel, tasks, events, now>>

\* the two calls of initializeServiceWorker(): at script load, and from the
\* runtime.onStartup listener
InitCalls == {"load", "onStartup"}

\* a handler invocation that has not been started
IdleTask == [
    ctx       |-> "none",      \* "agent" | "observer"
    origin    |-> "none",      \* "message" | "menu" | "timer"
    req       |-> "none",      \* request.action or info.menuItemId
    arg       |-> Undefined,   \* request payload / info.selectionText, linkUrl, srcUrl
    pc        |-> "idle",
    steps     |-> <<>>,        \* the external calls it has awaited, in order
    outcomes  |-> <<>>,        \* how each of them settled, in order
    notes     |-> <<>>,        \* its showThreatNotification calls, in order
    sent      |-> <<>>,        \* its sendResponse calls, in order
    ret       |-> Undefined,   \* what its scan function returned
    threw     |-> Undefined,   \* the error its scan function threw
    shot      |-> Undefined,   \* const screenshot
    api       |-> Undefined,   \* const result = await apiResponse.json()
    page      |-> Undefined,   \* results[0].result of executeScript
    threats   |-> <<>>,        \* const threats = quickKeywordScan(...)
    endpoint  |-> "",          \* settings.apiEndpoint as read for its fetch
    obj       |-> Undefined,   \* the object of its pending storage write
    began     |-> Undefined    \* the settings in force when its scan or update began
]

\* new Error(message)
NewError(message) == [message |-> message]

(* ----------------- background.js: notifications ----------------------- *)

\* a showThreatNotification without its first line
showThreatNotificationUngated(k, title) ==
    [k EXCEPT !.notes = Append(@, [title |-> title, created |-> TRUE, id |-> now])]

\* showThreatNotification(title, message) called by invocation k: returns
\* at once when settings.notifications is false, else creates the
\* notification `threat-${Date.now()}`
showThreatNotification(k, title) ==
    [k EXCEPT !.notes =
        Append(@, [title |-> title, created |-> settings.notifications, id |-> now])]

\* sendResponse(response) called by invocation k
sendResponse(k, response) == [k EXCEPT !.sent = Append(@, response)]

\* the call invocation k awaits has settled: "ok", "empty" (resolved with
\* nothing usable), "status" (an HTTP answer that is not ok) or "rejected"
Settled(k, outcome) == [k EXCEPT !.outcomes = Append(@, outcome)]

\* how the call `step` of invocation k settled, "none" if it has not
Outcome(k, step) ==
    IF \E i \in 1..Len(k.outcomes) : k.steps[i] = step
    THEN k.outcomes[CHOOSE i \in 1..Len(k.outcomes) : k.steps[i] = step]
    ELSE "none"

(* ---------------- background.js: the screenshot pipeline -------------- *)

\* takeScreenshotAndAnalyze returned `result` to its caller: handleMessage
\* answers the 'takeScreenshot' request, handleContextMenuClick just ends
PipelineReturns(k, result) ==
    LET r == [k EXCEPT !.ret = result, !.pc = "done"]
    IN  IF k.origin = "message"
        THEN sendResponse(r, [success |-> TRUE,
                              message |-> "Screenshot taken and analyzed",
                              result  |-> result])
        ELSE r

\* the outer catch of takeScreenshotAndAnalyze notifies and re-throws; the
\* catch of its caller answers the request (handleMessage) or logs
\* (handleContextMenuClick)
PipelineThrows(k, error) ==
    LET n == showThreatNotification(k, "Screenshot Error")
        r == [n EXCEPT !.threw = error, !.pc = "done"]
    IN  IF k.origin = "message"
        THEN sendResponse(r, [success |-> FALSE, error |-> error.message])
        ELSE r

\* takeScreenshotAndAnalyze(tab) up to `await captureVisibleTab`
takeScreenshotAndAnalyze(k) ==
    [showThreatNotification(k, "Screenshot Analysis") EXCEPT
        !.pc = "captureVisibleTab", !.steps = Append(@, "capture"),
        !.began = settings]

\* a capture check that let an empty image through
CaptureEmptyAccepted(k) ==
    [k EXCEPT !.pc = "download", !.steps = Append(@, "persist")]

\* `if (!screenshot) throw new Error('Failed to capture screenshot')`
CaptureEmpty(k) == PipelineThrows(k, NewError("Failed to capture screenshot"))

\* the image was captured: `await chrome.downloads.download(...)`
CaptureOk(k) ==
    [k EXCEPT !.shot = "data:image/png", !.pc = "download",
              !.steps = Append(@, "persist")]

\* performBasicScreenshotAnalysis(screenshot, tab) up to
\* `await chrome.scripting.executeScript`
performBasicScreenshotAnalysis(k) ==
    [k EXCEPT !.pc = "executeScript", !.steps = Append(@, "extract")]

\* `await chrome.downloads.download` rejected: nothing but the outer catch
\* encloses it
PersistFailed(k) == PipelineThrows(k, NewError("download failed"))

\* the download resolved: `await fetch(screenshot)`, `await response.blob()`
PersistOk(k) == [k EXCEPT !.pc = "toBlob", !.steps = Append(@, "toBlob")]

\* the blob is there: POST `${settings.apiEndpoint}/predict-image`
RemoteAttempt(k) ==
    [k EXCEPT !.pc = "fetch", !.steps = Append(@, "predict-image"),
              !.endpoint = settings.apiEndpoint]

\* a remote attempt whose else branch raised instead of falling back
ApiNotOkRaises(k) == PipelineThrows(k, NewError("API Error"))

\* `} else { return await performBasicScreenshotAnalysis(...) }` of
\* `if (apiResponse.ok)`
ApiNotOk(k) == performBasicScreenshotAnalysis(k)

\* a catch that sends the image once more after a rejected fetch
ApiRejectedRetries(k) == RemoteAttempt(k)

\* `catch (apiError)` of the remote attempt, after a rejected fetch
ApiRejected(k) == performBasicScreenshotAnalysis(k)

\* `catch (apiError)` after any other failure inside the remote attempt:
\* the blob conversion, apiResponse.json(), chrome.storage.local.set
ApiCatch(k) == performBasicScreenshotAnalysis(k)

\* apiResponse.ok: `await apiResponse.json()`
ApiOk(k) == [k EXCEPT !.pc = "json", !.steps = Append(@, "json")]

\* the classifier's answer is parsed: notify it, then
\* `await chrome.storage.local.set({lastScreenshotResult: ...})`
ApiParsed(k, result) ==
    [showThreatNotification(k,
        IF result.prediction = 1 THEN "THREAT DETECTED IN SCREENSHOT!"
                                 ELSE "Screenshot Safe")
     EXCEPT !.api = result, !.pc = "cacheRemote",
            !.steps = Append(@, "cacheRemote")]

\* the object returned for the popup after a remote analysis
RemoteResult(result) ==
    [threats |-> IF result.prediction = 1
                 THEN << <<"P", "h", "i", "s", "h", "i", "n", "g", "/", "S", "c", "a", "m", " ", "c", "o", "n", "t", "e", "n", "t", " ", "d", "e", "t", "e", "c", "t", "e", "d">> >>
                 ELSE <<>>,
     confidence      |-> result.probability,
     apiResult       |-> result,
     screenshotSaved |-> TRUE]

\* a confidence that ignored the findings
BasicConfidenceFlat(threats) == 80

\* `confidence: threats.length > 0 ? 0.8 : 0.2`
BasicConfidence(threats) == IF Len(threats) > 0 THEN 80 ELSE 20

\* basicAnalysis: { threats, text: text.substring(0, 500), title, url }
BasicAnalysisOf(threats, page) ==
    [threats |-> threats, text |-> Substring0(page.text, 500),
     title |-> page.title, url |-> page.url]

\* the object returned for the popup after a keyword analysis
BasicResult(threats, page) ==
    [threats         |-> threats,
     confidence      |-> BasicConfidence(threats),
     basicAnalysis   |-> BasicAnalysisOf(threats, page),
     screenshotSaved |-> TRUE]

\* "Return default result if no text extracted"
DefaultResult ==
    [threats         |-> <<>>,
     confidence      |-> 10,
     basicAnalysis   |-> [threats |-> <<>>, text |-> <<>>, title |-> <<>>, url |-> <<>>],
     screenshotSaved |-> TRUE]

\* an error result that dropped the error
ErrorResultSilent(error) ==
    [threats         |-> <<>>,
     confidence      |-> 10,
     screenshotSaved |-> TRUE]

\* "Return error result"
ErrorResult(error) ==
    [threats         |-> <<>>,
     confidence      |-> 0,
     error           |-> error.message,
     screenshotSaved |-> TRUE]

\* `catch (error)` of performBasicScreenshotAnalysis
BasicAnalysisCatch(k, error) ==
    PipelineReturns(showThreatNotification(k, "Screenshot Saved"),
                    ErrorResult(error))

\* executeScript gave a page: keyword scan of text + ' ' + title, notify,
\* then `await chrome.storage.local.set({lastScreenshotResult: ...})`
BasicAnalysis(k, page) ==
    LET threats == quickKeywordScan(page.text \o <<" ">> \o page.title)
    IN  [showThreatNotification(k,
            IF Len(threats) > 0 THEN "Suspicious Content Detected"
            ELSE "Screenshot Saved & Basic Analysis Complete")
         EXCEPT !.page = page, !.threats = threats, !.pc = "cacheBasic",
                !.steps = Append(@, "cacheBasic")]

\* what the injected function returns: innerText cut to 2000 characters,
\* the title and the location
ExtractedPages ==
    {[text |-> Substring0(text, 2000), title |-> title, url |-> TabUrl] :
        text \in Texts, title \in Titles}

(* --------------------------- frame helpers ---------------------------- *)

\* everything of the service worker but its handler invocations
agentVars ==
    <<settings, initPc, listeners, timers, syncStore, localStore, changes,
      badge, menus, menuJobs, menuCallbacks>>

SetTask(t, k) == tasks' = [tasks EXCEPT ![t] = k]

\* the handler invocation t is suspended at the await named pc
At(t, pc) == tasks[t].pc = pc

(* ------------- background.js: screenshot pipeline, resumed ------------ *)

\* chrome.tabs.captureVisibleTab settles
CaptureDone(t) ==
    /\ At(t, "captureVisibleTab")
    /\ \E outcome \in {"ok", "empty", "rejected"} :
         LET k == Settled(tasks[t], outcome)
         IN  SetTask(t, CASE outcome = "ok" -> CaptureOk(k)
                          [] outcome = "empty" -> CaptureEmpty(k)
                          [] OTHER -> PipelineThrows(k, NewError("capture failed")))
    /\ UNCHANGED <<agentVars, observer, panel, events, now>>

\* chrome.downloads.download settles
PersistDone(t) ==
    /\ At(t, "download")
    /\ \/ SetTask(t, PersistOk(Settled(tasks[t], "ok")))
       \/ SetTask(t, PersistFailed(Settled(tasks[t], "rejected")))
    /\ UNCHANGED <<agentVars, observer, panel, events, now>>

\* fetch(screenshot) and response.blob() settle
ToBlobDone(t) ==
    /\ At(t, "toBlob")
    /\ \/ SetTask(t, RemoteAttempt(Settled(tasks[t], "ok")))
       \/ SetTask(t, ApiCatch(Settled(tasks[t], "rejected")))
    /\ UNCHANGED <<agentVars, observer, panel, events, now>>

\* fetch(`${settings.apiEndpoint}/predict-image`) settles
FetchDone(t) ==
    /\ At(t, "fetch")
    /\ \E outcome \in {"ok", "status", "rejected"} :
         LET k == Settled(tasks[t], outcome)
         IN  SetTask(t, CASE outcome = "ok" -> ApiOk(k)
                          [] outcome = "status" -> ApiNotOk(k)
                          [] OTHER -> ApiRejected(k))
    /\ UNCHANGED <<agentVars, observer, panel, events, now>>

\* apiResponse.json() settles
JsonDone(t) ==
    /\ At(t, "json")
    /\ \/ \E result \in ApiResults :
            SetTask(t, ApiParsed(Settled(tasks[t], "ok"), result))
       \/ SetTask(t, ApiCatch(Settled(tasks[t], "rejected")))
    /\ UNCHANGED <<agentVars, observer, panel, events, now>>

\* chrome.storage.local.set({lastScreenshotResult}) of the remote branch
\* settles
CacheRemoteDone(t) ==
    /\ At(t, "cacheRemote")
    /\ \/ /\ localStore' = Merge(localStore,
                [lastScreenshotResult |->
                    [screenshot |-> tasks[t].shot, result |-> tasks[t].api,
                     timestamp |-> now, url |-> TabUrl]])
          /\ SetTask(t, PipelineReturns(Settled(tasks[t], "ok"),
                                        RemoteResult(tasks[t].api)))
       \/ /\ SetTask(t, ApiCatch(Settled(tasks[t], "rejected")))
          /\ UNCHANGED localStore
    /\ UNCHANGED <<settings, initPc, listeners, timers, syncStore, changes,
                   badge, menus, menuJobs, menuCallbacks, observer, panel, events, now>>

\* chrome.scripting.executeScript of performBasicScreenshotAnalysis settles
ExtractDoneWith(t, pages) ==
    /\ At(t, "executeScript")
    /\ \/ \E page \in pages :
            SetTask(t, BasicAnalysis(Settled(tasks[t], "ok"), page))
       \/ SetTask(t, PipelineReturns(Settled(tasks[t], "empty"), DefaultResult))
       \/ SetTask(t, BasicAnalysisCatch(Settled(tasks[t], "rejected"),
                                        NewError("extraction failed")))
    /\ UNCHANGED <<agentVars, observer, panel, events, now>>

ExtractDone(t) == ExtractDoneWith(t, ExtractedPages)

\* chrome.storage.local.set({lastScreenshotResult}) of the keyword branch
\* settles
CacheBasicDone(t) ==
    /\ At(t, "cacheBasic")
    /\ \/ /\ localStore' = Merge(localStore,
                [lastScreenshotResult |->
                    [screenshot |-> tasks[t].shot,
                     basicAnalysis |-> BasicAnalysisOf(tasks[t].threats, tasks[t].page),
                     timestamp |-> now, url |-> TabUrl]])
          /\ SetTask(t, PipelineReturns(Settled(tasks[t], "ok"),
                            BasicResult(tasks[t].threats, tasks[t].page)))
       \/ /\ SetTask(t, BasicAnalysisCatch(Settled(tasks[t], "rejected"),
                                           NewError("cache write failed")))
          /\ UNCHANGED localStore
    /\ UNCHANGED <<settings, initPc, listeners, timers, syncStore, changes,
                   badge, menus, menuJobs, menuCallbacks, observer, panel, events, now>>

(* ------------------ background.js: scanContent and users -------------- *)

Done(k) == [k EXCEPT !.pc = "done"]

\* callers that answer a failed scan with the verdict of the keyword scan
ScanContentThrowsFallsBack(k, error) ==
    LET text    == IF k.origin = "message" THEN k.arg.content ELSE k.arg.selectionText
        threats == quickKeywordScan(text)
        r       == Done([k EXCEPT !.threats = threats])
    IN  IF k.origin = "message"
        THEN sendResponse(r, [success |-> TRUE, result |-> threats])
        ELSE showThreatNotification(r, IF Len(threats) > 0 THEN "Suspicious Content"
                                                             ELSE "Quick Scan Complete")

\* scanContent threw `error` to its caller: the catch of handleMessage
\* answers the request, the catch of scanSelectedText notifies
ScanContentThrows(k, error) ==
    LET r == Done([k EXCEPT !.threw = error])
    IN  IF k.origin = "message"
        THEN sendResponse(r, [success |-> FALSE, error |-> error.message])
        ELSE showThreatNotification(r, "Scan Error")

\* scanContent returned `result` to its caller: handleMessage answers,
\* scanSelectedText notifies the verdict and then
\* `await chrome.storage.local.set({lastScanResult: ...})`
ScanContentReturns(k, result) ==
    IF k.origin = "message"
    THEN sendResponse(Done([k EXCEPT !.ret = result]),
                      [success |-> TRUE, result |-> result])
    ELSE [showThreatNotification(k,
            IF result.prediction = 1 THEN "THREAT DETECTED!" ELSE "Content Safe")
          EXCEPT !.ret = result, !.api = result, !.pc = "cacheScan",
                 !.steps = Append(@, "cacheScan")]

\* the `type` values a 'scanContent' request carries
ContentTypes == {"text", "image", "audio", "video"}

\* `Unsupported content type: ${type}`
Unsupported(type) ==
    CASE type = "image" -> "Unsupported content type: image"
      [] type = "audio" -> "Unsupported content type: audio"
      [] type = "video" -> "Unsupported content type: video"
      [] OTHER -> "Unsupported content type"

\* scanContent(content, type) up to `await fetch(...)`
scanContent(k, type) ==
    IF type = "text"
    THEN [k EXCEPT !.pc = "scanFetch", !.steps = Append(@, "predict-text"),
                   !.endpoint = settings.apiEndpoint]
    ELSE ScanContentThrows(k, NewError(Unsupported(type)))

\* a scanContent that throws the error of a failed fetch for a response
\* that is not ok
ApiErrorConflated(status) ==
    [message |-> "Failed to fetch", status |-> status]

\* `throw new Error(`API Error: ${response.status}`)`
ApiError(status) ==
    [message |-> IF status = 500 THEN "API Error: 500" ELSE "API Error: 404",
     status  |-> status]

\* scanSelectedText(selectedText, tab) up to its first await
scanSelectedText(k) ==
    IF k.arg.selectionText = <<>> \/ Len(Trim(k.arg.selectionText)) = 0
    THEN Done(showThreatNotification(k, "No Text Selected"))
    ELSE scanContent(showThreatNotification(k, "Scanning Text"), "text")

\* quickScanText(selectedText, tab): no await
quickScanText(k) ==
    IF k.arg.selectionText = <<>> \/ Len(Trim(k.arg.selectionText)) = 0
    THEN Done(showThreatNotification(k, "No Text Selected"))
    ELSE LET threats == quickKeywordScan(k.arg.selectionText)
         IN  Done(showThreatNotification([k EXCEPT !.threats = threats],
                    IF Len(threats) > 0 THEN "Suspicious Content"
                                        ELSE "Quick Scan Complete"))

\* scanPage(tab) up to `await chrome.scripting.executeScript`
scanPage(k) ==
    [showThreatNotification(k, "Page Scan") EXCEPT
        !.pc = "pageScript", !.steps = Append(@, "extract")]

\* scanPage once the script returned {text, links}
PageScanned(k, page) ==
    LET textThreats     == quickKeywordScan(page.text)
        suspiciousLinks == analyzeLinks(page.links)
    IN  Done(showThreatNotification([k EXCEPT !.page = page, !.threats = textThreats],
                IF Len(textThreats) > 0 \/ Len(suspiciousLinks) > 0
                THEN "Threats Detected" ELSE "Page Safe"))

\* scanLink(linkUrl, tab): no await
scanLink(k) ==
    Done(showThreatNotification(showThreatNotification(k, "Link Scan"),
            IF isSuspiciousURL(k.arg.linkUrl) THEN "Suspicious Link" ELSE "Link Safe"))

\* scanImage(imageUrl, tab): no await
scanImage(k) ==
    Done(showThreatNotification(showThreatNotification(k, "Image Scan"),
            IF isSuspiciousURL(k.arg.srcUrl) THEN "Suspicious Image" ELSE "Image Safe"))

\* checkAPIStatus() up to `await fetch(...)`
checkAPIStatus(k) ==
    [k EXCEPT !.pc = "probe", !.steps = Append(@, "probe"),
              !.endpoint = settings.apiEndpoint]

\* a badge that carries the marker whatever the status
updateExtensionIconMarked(status) ==
    [text  |-> "!",
     color |-> IF status = "error" THEN "#ef4444" ELSE "#f59e0b"]

\* updateExtensionIcon(status): the badge text and background colour
updateExtensionIcon(status) ==
    [text  |-> IF status = "active" THEN "" ELSE "!",
     color |-> IF status = "error" THEN "#ef4444" ELSE "#f59e0b"]

\* a probe that reports every failure as 'error'
ProbeStatusConflated(outcome) ==
    IF outcome = "ok" THEN "connected" ELSE "error"

\* the status checkAPIStatus returns: response.ok, a response that is not
\* ok, or the catch of a fetch that rejected
ProbeStatus(outcome) ==
    CASE outcome = "ok" -> "connected"
      [] outcome = "status" -> "error"
      [] OTHER -> "disconnected"

\* an indicator that a failure switches: the marker is set by a failure
\* when the badge is clear and cleared by one when it is set
ProbeIconToggling(outcome) ==
    IF outcome = "ok" \/ badge.text = "!" THEN "active" ELSE "error"

\* the argument checkAPIStatus passes to updateExtensionIcon
ProbeIcon(outcome) == IF outcome = "ok" THEN "active" ELSE "error"

\* checkAPIStatus returned `status`: handleMessage answers the request
ProbeReturns(k, status) ==
    LET r == Done([k EXCEPT !.ret = status])
    IN  IF k.origin = "message"
        THEN sendResponse(r, [success |-> TRUE, status |-> status])
        ELSE r

(* --------------------- background.js: handleMessage ------------------- *)

\* a default branch that ignored the request
UnknownActionIgnored(k) == Done(k)

\* `default: sendResponse({ success: false, error: 'Unknown action' })`
UnknownAction(k) ==
    Done(sendResponse(k, [success |-> FALSE, error |-> "Unknown action"]))

\* `settings = { ...settings, ...request.settings }`
UpdatedSettings(request) ==
    IF request.action = "updateSettings"
    THEN Merge(settings, request.settings) ELSE settings

\* handleMessage(request, sender, sendResponse) up to its first await
handleMessage(k) ==
    CASE k.req = "getSettings" ->
            Done(sendResponse(k, [success |-> TRUE, settings |-> settings]))
      [] k.req = "updateSettings" ->
            [k EXCEPT !.obj = UpdatedSettings(k.arg), !.pc = "syncSet",
                      !.steps = Append(@, "store"), !.began = settings]
      [] k.req = "scanContent" -> scanContent(k, k.arg.type)
      [] k.req = "checkAPIStatus" -> checkAPIStatus(k)
      [] k.req = "debugContextMenus" ->
            Done(sendResponse(k, [success |-> TRUE,
                                  message |-> "Context menus recreated"]))
      [] k.req = "takeScreenshot" ->
            [k EXCEPT !.pc = "tabsGet", !.steps = Append(@, "tabsGet")]
      [] OTHER -> UnknownAction(k)

\* handleContextMenuClick(info, tab) up to its first await
handleContextMenuClick(k) ==
    CASE k.req = "scan-selected-text" -> scanSelectedText(k)
      [] k.req = "quick-scan" -> quickScanText(k)
      [] k.req = "scan-page" -> scanPage(k)
      [] k.req = "scan-link" -> scanLink(k)
      [] k.req = "scan-image" -> scanImage(k)
      [] k.req = "screenshot-analyze" -> takeScreenshotAndAnalyze(k)
      [] OTHER -> Done(k)

(* ----------------------- content.js: handleMessage -------------------- *)

\* ContentAnalyzer.handleMessage(request, sender, sendResponse); the
\* payloads of the recognized actions are left opaque here
observerHandleMessage(k) ==
    CASE k.req = "analyzePage" ->
            Done(sendResponse([k EXCEPT !.threats = analyzePageContent(k.page)],
                              [success |-> TRUE, analysis |-> "analysis"]))
      [] k.req = "extractContent" ->
            Done(sendResponse(k, [success |-> TRUE, content |-> "content"]))
      [] k.req = "scanElement" ->
            IF k.arg.element = "element"
            THEN Done(sendResponse(k, [success |-> TRUE, result |-> "analysis"]))
            ELSE Done(sendResponse(k, [success |-> FALSE, error |-> "TypeError"]))
      [] OTHER ->
            Done(sendResponse(k, [success |-> FALSE, error |-> "Unknown action"]))

\* onMessage listeners of the content script: the one registered at the
\* end of the file, and the one of setupEventListeners() once init() got
\* there
ObserverListeners == IF observer.pc = "ready" THEN 2 ELSE 1

(* ------------------------------ dispatch ------------------------------ *)

\* an event can be dispatched to its n listeners: events are taken one at
\* a time, the next one once the handlers of the last have ended
CanDispatch(n) ==
    /\ n >= 1
    /\ events < MaxEvents
    /\ \A t \in Tasks : tasks[t].pc = "idle"

\* the invocation handling a new event
NewTask(ctx, origin, req, arg) ==
    [IdleTask EXCEPT !.ctx = ctx, !.origin = origin, !.req = req, !.arg = arg]

\* every one of the n listeners runs its handler up to its first await
Start(n, k) ==
    /\ tasks' = [t \in Tasks |-> IF t <= n THEN k ELSE IdleTask]
    /\ events' = events + 1

\* the handlers of the current event have all ended
Retire ==
    /\ \E t \in Tasks : tasks[t].pc = "done"
    /\ \A t \in Tasks : tasks[t].pc \in {"idle", "done"}
    /\ tasks' = [t \in Tasks |-> IdleTask]
    /\ UNCHANGED <<agentVars, observer, panel, events, now>>

\* the objects over a subset of the two settings keys
SettingKeys == {"apiEndpoint", "notifications"}

SettingsObj(keys, endpoint, flag) ==
    [key \in keys |-> IF key = "apiEndpoint" THEN endpoint ELSE flag]

\* chrome.runtime.onMessage of the service worker fires with `request`
ReceiveMessage(request) ==
    /\ CanDispatch(listeners)
    /\ Start(listeners,
             handleMessage(NewTask("agent", "message", request.action, request)))
    /\ settings' = UpdatedSettings(request)
    /\ menuJobs' = IF request.action = "debugContextMenus"
                   THEN menuJobs + listeners ELSE menuJobs
    /\ UNCHANGED <<initPc, listeners, timers, syncStore, localStore, changes,
                   badge, menus, menuCallbacks, observer, panel, now>>

\* chrome.contextMenus.onClicked fires with `info`
MenuClick(info) ==
    /\ info.menuItemId \in menus
    /\ CanDispatch(listeners)
    /\ Start(listeners,
             handleContextMenuClick(NewTask("agent", "menu", info.menuItemId, info)))
    /\ UNCHANGED <<agentVars, observer, panel, now>>

\* chrome.runtime.onMessage of the content script fires with `request`
\* while the page shows `document`
ObserverReceiveMessageOn(request, document) ==
    /\ CanDispatch(ObserverListeners)
    /\ Start(ObserverListeners,
             observerHandleMessage(
                [NewTask("observer", "message", request.action, request)
                    EXCEPT !.page = document]))
    /\ UNCHANGED <<agentVars, observer, panel, now>>

ObserverReceiveMessage(request) == ObserverReceiveMessageOn(request, EmptyDocument)

(* ------------------- background.js: other resumptions ----------------- *)

\* the changes chrome.storage.onChanged reports after set(obj)
ChangesOf(store, obj) ==
    LET keys == {key \in DOMAIN obj : ~Has(store, key) \/ store[key] # obj[key]}
    IN  [key \in keys |-> [newValue |-> obj[key]]]

\* `await chrome.storage.sync.set(settings)` of updateSettings settles
SyncSetDone(t) ==
    /\ At(t, "syncSet")
    /\ \/ /\ syncStore' = Merge(syncStore, tasks[t].obj)
          /\ changes' = IF DOMAIN ChangesOf(syncStore, tasks[t].obj) = {}
                        THEN changes
                        ELSE Append(changes, ChangesOf(syncStore, tasks[t].obj))
          /\ SetTask(t, Done(sendResponse(Settled(tasks[t], "ok"), [success |-> TRUE])))
       \/ /\ SetTask(t, Done(sendResponse([Settled(tasks[t], "rejected") EXCEPT
                                         !.threw = NewError("store write failed")],
                                [success |-> FALSE, error |-> "store write failed"])))
          /\ UNCHANGED <<syncStore, changes>>
    /\ UNCHANGED <<settings, initPc, listeners, timers, localStore, badge,
                   menus, menuJobs, menuCallbacks, observer, panel, events, now>>

\* handleSettingsChange(changes)
handleSettingsChange(change) ==
    [apiEndpoint   |-> IF Has(change, "apiEndpoint")
                       THEN change.apiEndpoint.newValue ELSE settings.apiEndpoint,
     notifications |-> IF Has(change, "notifications")
                       THEN change.notifications.newValue ELSE settings.notifications]

\* chrome.storage.onChanged fires in the service worker
StorageChanged ==
    /\ changes # <<>>
    /\ settings' = IF listeners >= 1 THEN handleSettingsChange(Head(changes))
                   ELSE settings
    /\ changes' = Tail(changes)
    /\ UNCHANGED <<initPc, listeners, timers, syncStore, localStore, badge,
                   menus, menuJobs, menuCallbacks, observer, panel, tasks, events, now>>

\* `await chrome.tabs.get(request.tabId)` of 'takeScreenshot' settles
TabsGetDone(t) ==
    /\ At(t, "tabsGet")
    /\ \/ SetTask(t, takeScreenshotAndAnalyze(Settled(tasks[t], "ok")))
       \/ SetTask(t, Done(sendResponse([Settled(tasks[t], "rejected") EXCEPT
                                      !.threw = NewError("No tab with id")],
                             [success |-> FALSE, error |-> "No tab with id"])))
    /\ UNCHANGED <<agentVars, observer, panel, events, now>>

\* `await fetch(...)` of scanContent settles
ScanFetchDone(t) ==
    /\ At(t, "scanFetch")
    /\ \/ SetTask(t, [Settled(tasks[t], "ok") EXCEPT
                        !.pc = "scanJson", !.steps = Append(@, "json")])
       \/ \E status \in ErrorStatuses :
            SetTask(t, ScanContentThrows(Settled(tasks[t], "status"), ApiError(status)))
       \/ SetTask(t, ScanContentThrows(Settled(tasks[t], "rejected"),
                                       NewError("Failed to fetch")))
    /\ UNCHANGED <<agentVars, observer, panel, events, now>>

\* `await response.json()` of scanContent settles
ScanJsonDone(t) ==
    /\ At(t, "scanJson")
    /\ \/ \E result \in ApiResults :
            SetTask(t, ScanContentReturns(Settled(tasks[t], "ok"), result))
       \/ SetTask(t, ScanContentThrows(Settled(tasks[t], "rejected"),
                                       NewError("Unexpected token")))
    /\ UNCHANGED <<agentVars, observer, panel, events, now>>

\* `await chrome.storage.local.set({lastScanResult})` of scanSelectedText
\* settles
CacheScanDone(t) ==
    /\ At(t, "cacheScan")
    /\ \/ /\ localStore' = Merge(localStore,
                [lastScanResult |->
                    [text |-> Substring0(tasks[t].arg.selectionText, 100) \o <<".", ".", ".">>,
                     result |-> tasks[t].api, timestamp |-> now]])
          /\ SetTask(t, Done(Settled(tasks[t], "ok")))
       \/ /\ SetTask(t, Done(showThreatNotification(Settled(tasks[t], "rejected"),
                                                   "Scan Error")))
          /\ UNCHANGED localStore
    /\ UNCHANGED <<settings, initPc, listeners, timers, syncStore, changes,
                   badge, menus, menuJobs, menuCallbacks, observer, panel, events, now>>

\* `await chrome.scripting.executeScript` of scanPage settles
PageLinks == {<<>>} \cup {<<url>> : url \in Urls}

PageScriptDoneWith(t, texts, pageLinks) ==
    /\ At(t, "pageScript")
    /\ \/ \E text \in texts, links \in pageLinks :
            SetTask(t, PageScanned(Settled(tasks[t], "ok"),
                        [text |-> Substring0(text, 2000), links |-> links]))
       \/ SetTask(t, Done(Settled(tasks[t], "empty")))
       \/ SetTask(t, Done(showThreatNotification(Settled(tasks[t], "rejected"),
                                                 "Page Scan Error")))
    /\ UNCHANGED <<agentVars, observer, panel, events, now>>

PageScriptDone(t) == PageScriptDoneWith(t, Texts, PageLinks)

\* `await fetch(...)` of checkAPIStatus settles
ProbeDone(t) ==
    /\ At(t, "probe")
    /\ \E outcome \in {"ok", "status", "rejected"} :
         /\ badge' = updateExtensionIcon(ProbeIcon(outcome))
         /\ SetTask(t, ProbeReturns(Settled(tasks[t], outcome),
                [status |-> ProbeStatus(outcome), timestamp |-> now]))
    /\ UNCHANGED <<settings, initPc, listeners, timers, syncStore, localStore,
                   changes, menus, menuJobs, menuCallbacks, observer, panel, events, now>>

(* -------------------- background.js: initialization ------------------- *)

\* the ids createContextMenus() registers inside the removeAll callback
MenuIds == {
    "nexus-guard-parent", "scan-selected-text", "quick-scan", "separator-1",
    "open-extension", "nexus-guard-general", "scan-page", "scan-link",
    "scan-image", "separator-2", "open-extension-general", "test-menu",
    "simple-test", "screenshot-analyze"
}

\* a non-empty string is truthy
Truthy(s) == s # ""

\* loadSettings() with `||` replaced by a test for a missing key
LoadedSettingsKeepsEmpty(result) ==
    [apiEndpoint   |-> IF Has(result, "apiEndpoint")
                       THEN result.apiEndpoint ELSE DefaultEndpoint,
     notifications |-> ~(Has(result, "notifications") /\ result.notifications = FALSE)]

\* loadSettings(): the object built from the result of storage.sync.get
LoadedSettings(result) ==
    [apiEndpoint   |-> IF Has(result, "apiEndpoint") /\ Truthy(result.apiEndpoint)
                       THEN result.apiEndpoint ELSE DefaultEndpoint,
     notifications |-> ~(Has(result, "notifications") /\ result.notifications = FALSE)]

\* chrome.runtime.onStartup fires: the event that started the worker, so
\* it comes before the first storage read has settled
OnStartup ==
    /\ initPc["load"] = "loadSettings"
    /\ initPc["onStartup"] = "none"
    /\ initPc' = [initPc EXCEPT !["onStartup"] = "loadSettings"]
    /\ UNCHANGED <<settings, listeners, timers, syncStore, localStore, changes,
                   badge, menus, menuJobs, menuCallbacks, observer, panel, tasks, events, now>>

\* `await loadSettings()` of one initializeServiceWorker() call settles;
\* the call goes on with setupEventListeners(), createContextMenus() and
\* startMonitoring()
LoadSettingsDone(c) ==
    /\ initPc[c] = "loadSettings"
    /\ \/ settings' = LoadedSettings(syncStore)
       \/ UNCHANGED settings
    /\ initPc' = [initPc EXCEPT ![c] = "done"]
    /\ listeners' = listeners + 1
    /\ menuJobs' = menuJobs + 1
    /\ timers' = timers + 1
    /\ UNCHANGED <<syncStore, localStore, changes, badge, menus, menuCallbacks,
                   observer, panel, tasks, events, now>>

\* a callback that creates the items of the selection menu before the
\* menu itself
MenuOrderChildrenFirst == <<
    "scan-selected-text", "quick-scan", "separator-1", "open-extension",
    "nexus-guard-parent", "nexus-guard-general", "scan-page", "scan-link",
    "scan-image", "separator-2", "open-extension-general", "test-menu",
    "simple-test", "screenshot-analyze">>

\* the ids in the order the callback of removeAll creates them
MenuOrder == <<
    "nexus-guard-parent", "scan-selected-text", "quick-scan", "separator-1",
    "open-extension", "nexus-guard-general", "scan-page", "scan-link",
    "scan-image", "separator-2", "open-extension-general", "test-menu",
    "simple-test", "screenshot-analyze">>

\* the parentId of a created item, "" when it has none
ParentId(id) ==
    CASE id \in {"scan-selected-text", "quick-scan", "separator-1", "open-extension"}
            -> "nexus-guard-parent"
      [] id \in {"scan-page", "scan-link", "scan-image", "separator-2",
                 "open-extension-general"}
            -> "nexus-guard-general"
      [] OTHER -> ""

\* chrome.contextMenus.create({id, parentId, ...}) on the registered ids:
\* the browser refuses an id that is registered and a parentId that is
\* not, and sets runtime.lastError, which the callbacks only log
Create(registered, id) ==
    IF id \in registered \/ (ParentId(id) # "" /\ ParentId(id) \notin registered)
    THEN registered
    ELSE registered \cup {id}

\* the creates of the callback of removeAll, in order, from the n-th on
RECURSIVE CreateFrom(_, _, _)
CreateFrom(registered, order, n) ==
    IF n > Len(order) THEN registered
    ELSE CreateFrom(Create(registered, order[n]), order, n + 1)

\* the callback of chrome.contextMenus.removeAll runs at once: the menus
\* are gone and the callback registers the full set
MenusRebuilt ==
    /\ menuJobs > 0
    /\ menuJobs' = menuJobs - 1
    /\ menus' = CreateFrom({}, MenuOrder, 1)
    /\ UNCHANGED <<settings, initPc, listeners, timers, syncStore, localStore,
                   changes, badge, menuCallbacks, observer, panel, tasks, events,
                   now>>

\* the browser runs a removeAll(): the menus are gone, the callback is due
MenusRemoved ==
    /\ menuJobs > 0
    /\ menuJobs' = menuJobs - 1
    /\ menuCallbacks' = menuCallbacks + 1
    /\ menus' = {}
    /\ UNCHANGED <<settings, initPc, listeners, timers, syncStore, localStore,
                   changes, badge, observer, panel, tasks, events, now>>

\* the callback of a removeAll() runs and the browser runs its creates
MenusCreated ==
    /\ menuCallbacks > 0
    /\ menuCallbacks' = menuCallbacks - 1
    /\ menus' = CreateFrom(menus, MenuOrder, 1)
    /\ UNCHANGED <<settings, initPc, listeners, timers, syncStore, localStore,
                   changes, badge, menuJobs, observer, panel, tasks, events, now>>

(* ----------------------- content.js: initialization ------------------- *)

\* `await this.loadSettings()` of ContentAnalyzer.init() settles
ObserverLoadSettingsDone ==
    /\ observer.pc = "loadSettings"
    /\ \/ observer' = [pc |-> "ready",
                       settings |-> [notifications |->
                            ~(Has(syncStore, "notifications")
                              /\ syncStore.notifications = FALSE)]]
       \/ observer' = [observer EXCEPT !.pc = "ready"]
    /\ UNCHANGED <<agentVars, panel, tasks, events, now>>

(* ------------------- content.js: document listeners ------------------ *)

\* an <a href=url> element without text
Anchor(url) == [href |-> url, tagName |-> "A", children |-> <<>>]

\* a <div> around one node
Wrapped(node) == [tagName |-> "DIV", children |-> <<node>>]

\* a text node: its nodeType is not Node.ELEMENT_NODE
TextNode == [tagName |-> "#text", children |-> <<>>]

\* the nodes a page script inserts
InsertedNodes ==
    {Anchor(url) : url \in Urls} \cup {Wrapped(Anchor(url)) : url \in Urls}
        \cup {TextNode}

\* the most nodes one mutation adds
MaxAdded == 2

\* mutation.addedNodes
AddedNodeLists ==
    UNION {[1..n -> InsertedNodes] : n \in 1..MaxAdded}

\* showWarning(message) called by invocation k: returns at once unless
\* this.settings.notifications is truthy, else inserts the warning box
showWarning(k, message) ==
    IF Has(observer.settings, "notifications") /\ observer.settings.notifications
    THEN [k EXCEPT !.notes = Append(@, [title |-> message, created |-> TRUE, id |-> now])]
    ELSE k

\* analyzeNewContent(element): an A element is handed to analyzeLinkThreats
\* and the array that call returns is dropped; `page.links` keeps the
\* links handed over and `threats` what the calls returned
analyzeNewContent(k, element) ==
    IF element.tagName = "A"
    THEN LET link == [text |-> <<>>, href |-> element.href]
         IN  [k EXCEPT !.page.links = Append(@, link),
                       !.threats = @ \o analyzeLinkThreats(<<link>>)]
    ELSE k

\* mutation.addedNodes.forEach(node => { if (node.nodeType ===
\* Node.ELEMENT_NODE) this.analyzeNewContent(node) })
RECURSIVE observeAdded(_, _)
observeAdded(k, nodes) ==
    IF nodes = <<>> THEN k
    ELSE observeAdded(IF Head(nodes).tagName # "#text"
                      THEN analyzeNewContent(k, Head(nodes)) ELSE k,
                      Tail(nodes))

\* the callback of the MutationObserver on document.body runs for a
\* childList mutation that added `nodes`
DomMutated(nodes) ==
    /\ observer.pc = "ready"
    /\ CanDispatch(1)
    /\ Start(1, Done(observeAdded(
                [NewTask("observer", "mutation", "childList", [addedNodes |-> nodes])
                    EXCEPT !.page = EmptyDocument],
                nodes)))
    /\ UNCHANGED <<agentVars, observer, panel, now>>

\* analyzeLinkClick(event): the click listener of the document runs for a
\* click inside the link `url`
LinkClicked(url) ==
    /\ observer.pc = "ready"
    /\ CanDispatch(1)
    /\ Start(1, LET k == NewTask("observer", "click", "click", [href |-> url])
                IN  Done(IF observerIsSuspiciousURL(url)
                         THEN showWarning(k, "Suspicious link detected") ELSE k))
    /\ UNCHANGED <<agentVars, observer, panel, now>>

(* ------------------------ popup.js: settings -------------------------- *)

\* saves of the popup per behaviour
MaxSaves == 1

\* what the endpoint field of the popup can hold once trimmed
PanelEndpoints == Endpoints \cup {""}

\* `await chrome.storage.sync.get` of NexusGuardExtension.loadSettings
\* settles; init() goes on with setupEventListeners()
PanelLoadSettingsDone ==
    /\ panel.pc = "loadSettings"
    /\ \/ panel' = [panel EXCEPT !.pc = "ready", !.settings = LoadedSettings(syncStore)]
       \/ panel' = [panel EXCEPT !.pc = "ready"]
    /\ UNCHANGED <<agentVars, observer, tasks, events, now>>

\* saveSettings() up to `await chrome.storage.sync.set(this.settings)`
PanelSaveSettings(apiEndpoint, notifications) ==
    /\ panel.pc = "ready"
    /\ panel.writes < MaxSaves
    /\ panel' = [panel EXCEPT
                    !.pc = "syncSet",
                    !.settings = [apiEndpoint |-> apiEndpoint,
                                  notifications |-> notifications],
                    !.writes = @ + 1,
                    !.previous = panel.settings]
    /\ UNCHANGED <<agentVars, observer, tasks, events, now>>

\* `await chrome.storage.sync.set(this.settings)` of saveSettings settles
PanelSaveDone ==
    /\ panel.pc = "syncSet"
    /\ panel' = [panel EXCEPT !.pc = "ready"]
    /\ \/ /\ syncStore' = Merge(syncStore, panel.settings)
          /\ changes' = IF DOMAIN ChangesOf(syncStore, panel.settings) = {}
                        THEN changes
                        ELSE Append(changes, ChangesOf(syncStore, panel.settings))
       \/ UNCHANGED <<syncStore, changes>>
    /\ UNCHANGED <<settings, initPc, listeners, timers, localStore, badge,
                   menus, menuJobs, menuCallbacks, observer, tasks, events, now>>

(* ------------------------ popup.js: file batches ---------------------- *)

\* files of a batch
MaxFiles == 2

\* the MIME types of the files the user picks
FileTypes == {"image/png", "audio/mpeg", "video/mp4", "text/plain"}

\* the names of the files of a batch, by position
FileNames == <<"a", "b", "c", "d">>

\* the batches handleFileUpload passes to processFiles
Batches ==
    UNION {[1..n -> FileTypes] : n \in 1..MaxFiles}

FilesOf(types) ==
    [i \in 1..Len(types) |-> [type |-> types[i], name |-> FileNames[i]]]

\* what the service answers for a file
FileResults == {
    [prediction |-> 0, is_spoofed |-> "authentic"],
    [prediction |-> 1],
    [prediction |-> 0, is_spoofed |-> "spoofed"],
    [prediction |-> 1, is_spoofed |-> "spoofed"]
}

\* scanFile(file): the endpoint chosen by file.type, "" where it throws
\* 'Unsupported file type'
scanFile(file) ==
    CASE file.type = "image/png"  -> "/predict-image"
      [] file.type = "audio/mpeg" -> "/predict-audio"
      [] file.type = "video/mp4"  -> "/predict-video"
      [] OTHER -> ""

\* `if (error)` of displayFileResults: the entry has a non-empty error
EntryFailed(entry) == Has(entry, "error") /\ Truthy(entry.error)

\* an overall status that puts a threat before spoofed content
displayFileResultsThreatFirst(results) ==
    LET ok         == SelectSeq(results, LAMBDA e : ~EntryFailed(e))
        hasThreats == \E i \in 1..Len(ok) :
                         Has(ok[i].result, "prediction") /\ ok[i].result.prediction = 1
        hasSpoofed == \E i \in 1..Len(ok) :
                         Has(ok[i].result, "is_spoofed") /\ ok[i].result.is_spoofed = "spoofed"
    IN  IF hasThreats THEN "threat" ELSE IF hasSpoofed THEN "spoofed" ELSE "safe"

\* displayFileResults(results): the type of the overall status it shows
displayFileResults(results) ==
    LET ok         == SelectSeq(results, LAMBDA e : ~EntryFailed(e))
        hasThreats == \E i \in 1..Len(ok) :
                         Has(ok[i].result, "prediction") /\ ok[i].result.prediction = 1
        hasSpoofed == \E i \in 1..Len(ok) :
                         Has(ok[i].result, "is_spoofed") /\ ok[i].result.is_spoofed = "spoofed"
    IN  IF hasSpoofed THEN "spoofed" ELSE IF hasThreats THEN "threat" ELSE "safe"

\* the loop of processFiles from the file after the last entry up to the
\* next `await fetch` of callAPI, or to displayFileResults(results)
RECURSIVE processFilesLoop(_)
processFilesLoop(p) ==
    IF Len(p.results) = Len(p.files)
    THEN [p EXCEPT !.pc = "ready", !.resultStatus = displayFileResults(p.results)]
    ELSE LET file == p.files[Len(p.results) + 1]
         IN  IF scanFile(file) = ""
             THEN processFilesLoop([p EXCEPT !.results =
                     Append(@, [error |-> "Unsupported file type", file |-> file.name])])
             ELSE [p EXCEPT !.pc = "fileFetch"]

\* a catch that gives up the batch at the first file that fails
FileFailedAborts(p, message) ==
    LET q == [p EXCEPT !.results =
                Append(@, [error |-> message, file |-> p.files[Len(p.results) + 1].name])]
    IN  [q EXCEPT !.pc = "ready", !.resultStatus = displayFileResults(q.results)]

\* `catch (error) { results.push({ file: file.name, error: error.message }) }`
\* and the loop goes on
FileFailed(p, message) ==
    processFilesLoop([p EXCEPT !.results =
        Append(@, [error |-> message, file |-> p.files[Len(p.results) + 1].name])])

\* `results.push({ file: file.name, result })` and the loop goes on
FileScanned(p, result) ==
    processFilesLoop([p EXCEPT !.results =
        Append(@, [result |-> result, file |-> p.files[Len(p.results) + 1].name])])

\* processFiles(files) up to the first `await fetch`
processFiles(files) ==
    /\ panel.pc = "ready"
    /\ panel' = processFilesLoop([panel EXCEPT !.files = files, !.results = <<>>,
                                               !.resultStatus = "analyzing"])
    /\ UNCHANGED <<agentVars, observer, tasks, events, now>>

\* `await fetch(url, options)` of callAPI settles
PanelFetchDone ==
    /\ panel.pc = "fileFetch"
    /\ \/ panel' = [panel EXCEPT !.pc = "fileJson"]
       \/ panel' = FileFailed(panel, "API Error: 500 Internal Server Error")
       \/ panel' = FileFailed(panel, "Failed to fetch")
    /\ UNCHANGED <<agentVars, observer, tasks, events, now>>

\* `await response.json()` of callAPI settles
PanelJsonDone ==
    /\ panel.pc = "fileJson"
    /\ \/ \E result \in FileResults : panel' = FileScanned(panel, result)
       \/ panel' = FileFailed(panel, "Unexpected token")
    /\ UNCHANGED <<agentVars, observer, tasks, events, now>>

(* --------------------------- specification ---------------------------- *)

\* the state once the scripts have been evaluated: the worker has called
\* initializeServiceWorker(), the content script has constructed its
\* ContentAnalyzer, both wait for their storage read
InitWith(stores) ==
    /\ settings = [apiEndpoint |-> DefaultEndpoint, notifications |-> TRUE]
    /\ initPc = [c \in InitCalls |-> IF c = "load" THEN "loadSettings" ELSE "none"]
    /\ listeners = 0
    /\ timers = 0
    /\ syncStore \in stores
    /\ localStore = EmptyObj
    /\ changes = <<>>
    /\ badge = [text |-> "", color |-> ""]
    /\ menus = {}
    /\ menuJobs = 0
    /\ menuCallbacks = 0
    /\ observer = [pc |-> "loadSettings", settings |-> EmptyObj]
    /\ panel = [pc |-> "loadSettings", settings |-> EmptyObj, writes |-> 0,
                files |-> <<>>, results |-> <<>>, resultStatus |-> "none",
                previous |-> EmptyObj]
    /\ tasks = [t \in Tasks |-> IdleTask]
    /\ events = 0
    /\ now = 0

\* what chrome.storage.sync may hold at startup
StoredSettings ==
    {SettingsObj(keys, endpoint, flag) :
        keys \in SUBSET SettingKeys, endpoint \in Endpoints, flag \in BOOLEAN}

\* the stores that hold, for each key, nothing or a value that is not the
\* default
StartStores ==
    {SettingsObj(keys, "http://x", FALSE) : keys \in SUBSET SettingKeys}

Init == InitWith(StartStores)

\* a handler invocation resumes at the await it is suspended at
Resume(t) ==
    \/ CaptureDone(t)
    \/ PersistDone(t)
    \/ ToBlobDone(t)
    \/ FetchDone(t)
    \/ JsonDone(t)
    \/ CacheRemoteDone(t)
    \/ ExtractDone(t)
    \/ CacheBasicDone(t)
    \/ SyncSetDone(t)
    \/ TabsGetDone(t)
    \/ ScanFetchDone(t)
    \/ ScanJsonDone(t)
    \/ CacheScanDone(t)
    \/ PageScriptDone(t)
    \/ ProbeDone(t)

\* the requests sent to the service worker
AgentRequest ==
    \/ \E action \in {"getSettings", "checkAPIStatus", "debugContextMenus",
                      "contentScriptLoaded"} :
          ReceiveMessage([action |-> action])
    \/ \E keys \in SUBSET SettingKeys, endpoint \in Endpoints, flag \in BOOLEAN :
          ReceiveMessage([action |-> "updateSettings",
                          settings |-> SettingsObj(keys, endpoint, flag)])
    \/ \E content \in Texts, type \in ContentTypes :
          ReceiveMessage([action |-> "scanContent", content |-> content, type |-> type])
    \/ ReceiveMessage([action |-> "takeScreenshot", tabId |-> 1])

\* the clicks on the quick-action menu
AgentMenuClick ==
    \/ \E id \in {"scan-selected-text", "quick-scan"}, text \in Texts \cup {<<" ">>} :
          MenuClick([menuItemId |-> id, selectionText |-> text])
    \/ \E id \in {"scan-page", "screenshot-analyze"} : MenuClick([menuItemId |-> id])
    \/ \E url \in Urls : MenuClick([menuItemId |-> "scan-link", linkUrl |-> url])
    \/ \E url \in Urls : MenuClick([menuItemId |-> "scan-image", srcUrl |-> url])

\* the requests sent to the content script
ObserverRequest ==
    \/ \E action \in {"analyzePage", "extractContent", "ping"} :
          ObserverReceiveMessage([action |-> action])
    \/ \E element \in {"element", "none"} :
          ObserverReceiveMessage([action |-> "scanElement", element |-> element])

\* the worker was woken by an event other than runtime.onStartup
Next ==
    \/ \E c \in InitCalls : LoadSettingsDone(c)
    \/ MenusRebuilt
    \/ ObserverLoadSettingsDone
    \/ StorageChanged
    \/ AgentRequest
    \/ AgentMenuClick
    \/ ObserverRequest
    \/ \E t \in Tasks : Resume(t)
    \/ Retire

Spec == Init /\ [][Next]_vars

\* the worker was started by the browser's start: runtime.onStartup fires
NextStartup ==
    \/ OnStartup
    \/ \E c \in InitCalls : LoadSettingsDone(c)
    \/ MenusRebuilt
    \/ StorageChanged
    \/ AgentRequest
    \/ AgentMenuClick
    \/ \E t \in Tasks : Resume(t)
    \/ Retire

SpecStartup == InitWith({EmptyObj}) /\ [][NextStartup]_vars

\* the clock Date.now() reads advances by a millisecond
Tick ==
    /\ now < MaxNow
    /\ now' = now + 1
    /\ UNCHANGED <<agentVars, observer, panel, tasks, events>>

\* the resumptions of the scan operations started from the menu
ResumeScan(t) ==
    \/ CaptureDone(t)
    \/ PersistDone(t)
    \/ ToBlobDone(t)
    \/ FetchDone(t)
    \/ JsonDone(t)
    \/ CacheRemoteDone(t)
    \/ ExtractDone(t)
    \/ CacheBasicDone(t)
    \/ ScanFetchDone(t)
    \/ ScanJsonDone(t)
    \/ CacheScanDone(t)
    \/ PageScriptDone(t)

\* menu scans while the clock runs
NextClock ==
    \/ LoadSettingsDone("load")
    \/ MenusRebuilt
    \/ Tick
    \/ AgentMenuClick
    \/ \E t \in Tasks : ResumeScan(t)
    \/ Retire

SpecClock == InitWith({EmptyObj}) /\ [][NextClock]_vars

\* the popup saves its settings form
PanelSave ==
    \E apiEndpoint \in PanelEndpoints, notifications \in BOOLEAN :
        PanelSaveSettings(apiEndpoint, notifications)

\* a store change reaches the worker while a screenshot pipeline waits for
\* its capture or its download
StorageChangedInFlight ==
    /\ \E t \in Tasks : tasks[t].pc \in {"captureVisibleTab", "download"}
    /\ StorageChanged

\* the resumptions of the screenshot pipeline
ResumePipeline(t) ==
    \/ TabsGetDone(t)
    \/ CaptureDone(t)
    \/ PersistDone(t)
    \/ ToBlobDone(t)
    \/ FetchDone(t)
    \/ JsonDone(t)
    \/ CacheRemoteDone(t)
    \/ ExtractDone(t)
    \/ CacheBasicDone(t)

\* the popup saves settings while a 'takeScreenshot' request is served
NextInFlight ==
    \/ LoadSettingsDone("load")
    \/ PanelLoadSettingsDone
    \/ PanelSave
    \/ PanelSaveDone
    \/ StorageChangedInFlight
    \/ ReceiveMessage([action |-> "takeScreenshot", tabId |-> 1])
    \/ \E t \in Tasks : ResumePipeline(t)
    \/ Retire

SpecInFlight == InitWith({EmptyObj}) /\ [][NextInFlight]_vars

\* what earlier saves of the popup may have left in chrome.storage.sync
SavedStores ==
    {SettingsObj(keys, endpoint, flag) :
        keys \in SUBSET SettingKeys, endpoint \in PanelEndpoints, flag \in BOOLEAN}

\* the popup saves settings; the worker and the content script hold their
\* copies and the worker answers 'getSettings'
NextSettings ==
    \/ LoadSettingsDone("load")
    \/ MenusRebuilt
    \/ ObserverLoadSettingsDone
    \/ PanelLoadSettingsDone
    \/ PanelSave
    \/ PanelSaveDone
    \/ StorageChanged
    \/ ReceiveMessage([action |-> "getSettings"])
    \/ Retire

SpecSettings == InitWith(SavedStores) /\ [][NextSettings]_vars

\* the callback of the setInterval of startMonitoring() runs: isActive is
\* true, so it calls checkAPIStatus(); the invocation takes the first free
\* slot
TimerFired ==
    /\ timers >= 1
    /\ \E t \in Tasks :
         /\ tasks[t].pc = "idle"
         /\ \A u \in Tasks : u < t => tasks[u].pc # "idle"
         /\ SetTask(t, checkAPIStatus(NewTask("agent", "timer", "checkAPIStatus",
                                              Undefined)))
    /\ UNCHANGED <<agentVars, observer, panel, events, now>>

\* the health probes: the periodic ones and the ones asked for by message
NextHealth ==
    \/ LoadSettingsDone("load")
    \/ MenusRebuilt
    \/ Tick
    \/ TimerFired
    \/ ReceiveMessage([action |-> "checkAPIStatus"])
    \/ \E t \in Tasks : ProbeDone(t)
    \/ Retire

SpecHealth == InitWith({EmptyObj}) /\ [][NextHealth]_vars

\* the user picks files in the popup and the popup scans them
NextBatch ==
    \/ PanelLoadSettingsDone
    \/ \E types \in Batches : processFiles(FilesOf(types))
    \/ PanelFetchDone
    \/ PanelJsonDone

SpecBatch == InitWith({EmptyObj}) /\ [][NextBatch]_vars

\* the menus are rebuilt by both startup calls and on 'debugContextMenus',
\* the browser running each removeAll() and each callback's creates when
\* it gets to them
NextMenus ==
    \/ OnStartup
    \/ \E c \in InitCalls : LoadSettingsDone(c)
    \/ ReceiveMessage([action |-> "debugContextMenus"])
    \/ MenusRemoved
    \/ MenusCreated
    \/ Retire

SpecMenus == InitWith({EmptyObj}) /\ [][NextMenus]_vars

\* the texts the detectors are run on
DetectTexts == Texts \cup {
    <<"c", "l", "i", "c", "k", " ", "h", "e", "r", "e", " ", "u", "r", "g", "e", "n", "t">>,
    <<"U", "r", "g", "e", "n", "t", " ", "c", "l", "i", "c", "k", " ", "h", "e", "r", "e">>,
    <<"a", "s", "a", "p", "a", "s", "a", "p">>,
    <<"a", "s", "a", "p", "a", "s", "a", "p", "a", "s", "a", "p">>,
    <<"a", "s", "a", "p", "a", "s", "a", "p", "a", "s", "a", "p", "h", "u", "r", "r", "y", "h", "u", "r", "r", "y", "h", "u", "r", "r", "y">>,
    <<"h", "e", "l", "l", "o">>}

\* the URLs the link detectors are run on
DetectUrls ==
    Urls \cup {<<"h", "t", "t", "p", "s", ":", "/", "/", "e", "x", "a", "m", "p", "l", "e", ".", "c", "o", "m", "/", "m", "a", "l", "w", "a", "r", "e">>}

\* the documents the detectors are run on: a text and no link, or no text
\* and one link
DetectDocuments ==
    {[text |-> text, links |-> <<>>] : text \in DetectTexts}
        \cup {[text |-> <<>>, links |-> <<[text |-> <<>>, href |-> url]>>] :
                url \in DetectUrls}

\* the detectors of both scripts at work: quick scan, link scan and page
\* scan of the worker, page analysis of the content script
NextDetect ==
    \/ LoadSettingsDone("load")
    \/ MenusRebuilt
    \/ \E text \in DetectTexts :
          MenuClick([menuItemId |-> "quick-scan", selectionText |-> text])
    \/ \E url \in DetectUrls : MenuClick([menuItemId |-> "scan-link", linkUrl |-> url])
    \/ MenuClick([menuItemId |-> "scan-page"])
    \/ \E t \in Tasks :
          PageScriptDoneWith(t, DetectTexts,
                             {<<>>} \cup {<<url>> : url \in DetectUrls})
    \/ \E document \in DetectDocuments :
          ObserverReceiveMessageOn([action |-> "analyzePage"], document)
    \/ Retire

SpecDetect == InitWith({EmptyObj}) /\ [][NextDetect]_vars

\* what the injected function of the local fallback returns for the pages
\* the detectors are run on
DetectPages ==
    {[text |-> Substring0(text, 2000), title |-> title, url |-> TabUrl] :
        text \in DetectTexts, title \in Titles}

\* the screenshot pipeline and the content script look at the same pages
NextFallback ==
    \/ LoadSettingsDone("load")
    \/ MenusRebuilt
    \/ MenuClick([menuItemId |-> "screenshot-analyze"])
    \/ \E t \in Tasks :
          \/ CaptureDone(t)
          \/ PersistDone(t)
          \/ ToBlobDone(t)
          \/ FetchDone(t)
          \/ JsonDone(t)
          \/ CacheRemoteDone(t)
          \/ ExtractDoneWith(t, DetectPages)
          \/ CacheBasicDone(t)
    \/ \E text \in DetectTexts :
          ObserverReceiveMessageOn([action |-> "analyzePage"],
                                   [text |-> text, links |-> <<>>])
    \/ Retire

SpecFallback == InitWith({EmptyObj}) /\ [][NextFallback]_vars

\* the content script watches the document: inserted nodes and clicks
NextDom ==
    \/ ObserverLoadSettingsDone
    \/ \E nodes \in AddedNodeLists : DomMutated(nodes)
    \/ \E url \in Urls : LinkClicked(url)
    \/ Retire

SpecDom == InitWith({EmptyObj}) /\ [][NextDom]_vars

\* the settings are written from both sides: 'updateSettings' requests to
\* the worker and saves of the popup's form
NextSave ==
    \/ LoadSettingsDone("load")
    \/ PanelLoadSettingsDone
    \/ PanelSave
    \/ PanelSaveDone
    \/ \E keys \in SUBSET SettingKeys, endpoint \in Endpoints, flag \in BOOLEAN :
          ReceiveMessage([action |-> "updateSettings",
                          settings |-> SettingsObj(keys, endpoint, flag)])
    \/ \E t \in Tasks : SyncSetDone(t)
    \/ StorageChanged
    \/ Retire

SpecSave == InitWith({EmptyObj}) /\ [][NextSave]_vars

(* ------------------------------ properties ---------------------------- *)

Range(s) == {s[i] : i \in 1..Len(s)}

\* the invocation runs takeScreenshotAndAnalyze
IsPipeline(k) == k.req \in {"takeScreenshot", "screenshot-analyze"}

Finished(k) == k.pc = "done"

\* the object is one performBasicScreenshotAnalysis builds
FallbackProduced(result) ==
    /\ ~Has(result, "apiResult")
    /\ Has(result, "basicAnalysis") \/ Has(result, "error")

\* the response of handleMessage to a 'takeScreenshot' that returned
ScreenshotResponse(result) ==
    [success |-> TRUE, message |-> "Screenshot taken and analyzed", result |-> result]

\* C1: a pipeline run whose capture and persist succeeded and whose
\* /predict-image call failed (status not ok, or rejected) goes on with
\* the local fallback, never throws, and ends with a result built by the
\* fallback; a 'takeScreenshot' request is answered success:true with it.
C1_RemoteFailureFallsBack ==
    \A t \in Tasks :
        LET k == tasks[t]
        IN  IsPipeline(k) /\ Outcome(k, "predict-image") \in {"status", "rejected"} =>
              /\ k.threw = Undefined
              /\ "extract" \in Range(k.steps)
              /\ \A i \in 1..Len(k.sent) : k.sent[i].success
              /\ Finished(k) =>
                    /\ FallbackProduced(k.ret)
                    /\ k.origin = "message" => k.sent = <<ScreenshotResponse(k.ret)>>

C1_Witness ==
    \E t \in Tasks :
        /\ IsPipeline(tasks[t]) /\ Finished(tasks[t])
        /\ tasks[t].origin = "message"
        /\ Outcome(tasks[t], "predict-image") = "status"
        /\ Has(tasks[t].ret, "basicAnalysis")

\* C2: when chrome.downloads.download rejects, the pipeline still goes on
\* to the remote attempt and the caller still gets a scan result, not an
\* error.
C2_PersistIsBestEffort ==
    \A t \in Tasks :
        LET k == tasks[t]
        IN  IsPipeline(k) /\ Outcome(k, "persist") = "rejected" =>
              /\ k.threw = Undefined
              /\ "toBlob" \in Range(k.steps)
              /\ \A i \in 1..Len(k.sent) : k.sent[i].success
              /\ Finished(k) => Has(k.ret, "threats")

\* C3: when the capture rejects or yields no image the pipeline ends with
\* an error: it awaits no persist, no remote call and no extraction,
\* returns no result, and a 'takeScreenshot' request is answered
\* success:false with the error's message.
C3_CaptureFailureAborts ==
    \A t \in Tasks :
        LET k == tasks[t]
        IN  IsPipeline(k) /\ Outcome(k, "capture") \in {"empty", "rejected"} =>
              /\ Finished(k)
              /\ Range(k.steps) \subseteq {"tabsGet", "capture"}
              /\ k.ret = Undefined
              /\ Has(k.threw, "message")
              /\ k.origin = "message" =>
                    k.sent = <<[success |-> FALSE, error |-> k.threw.message]>>
              /\ k.origin = "menu" => k.sent = <<>>

C3_Witness ==
    \E t \in Tasks :
        /\ IsPipeline(tasks[t]) /\ Finished(tasks[t])
        /\ tasks[t].origin = "message"
        /\ Outcome(tasks[t], "capture") = "empty"
        /\ tasks[t].sent = <<[success |-> FALSE, error |-> "Failed to capture screenshot"]>>

\* C4: when the extraction call of the local fallback raises, the fallback
\* does not raise: the pipeline returns a result with confidence 0, no
\* threats and an error field holding the extraction error's message.
C4_ExtractionErrorResult ==
    \A t \in Tasks :
        LET k == tasks[t]
        IN  IsPipeline(k) /\ Outcome(k, "extract") = "rejected" =>
              /\ Finished(k)
              /\ k.threw = Undefined
              /\ Has(k.ret, "confidence") /\ k.ret.confidence = 0
              /\ Has(k.ret, "threats") /\ k.ret.threats = <<>>
              /\ Has(k.ret, "error") /\ k.ret.error = "extraction failed"
              /\ k.origin = "message" => k.sent = <<ScreenshotResponse(k.ret)>>

C4_Witness ==
    \E t \in Tasks :
        /\ IsPipeline(tasks[t]) /\ Finished(tasks[t])
        /\ Outcome(tasks[t], "extract") = "rejected"
        /\ tasks[t].ret.error = "extraction failed"

C6_RemoteSuccessIsReturned ==
    \A t \in Tasks :
        LET k == tasks[t]
        IN  IsPipeline(k) /\ Outcome(k, "json") = "ok" /\ Finished(k) =>
              /\ Has(k.ret, "threats")
              /\ Len(k.ret.threats) > 0 <=> k.api.prediction = 1
              /\ k.ret.confidence = k.api.probability
              /\ Has(k.ret, "apiResult") /\ k.ret.apiResult = k.api
              /\ ~Has(k.ret, "basicAnalysis")

\* C7: every result the pipeline returns names exactly one source, the
\* remote result or the keyword analysis, and has a confidence in [0, 1].
C7_ResultHasOneSource ==
    \A t \in Tasks :
        LET k == tasks[t]
        IN  IsPipeline(k) /\ Finished(k) /\ Has(k.ret, "threats") =>
              /\ Has(k.ret, "apiResult") # Has(k.ret, "basicAnalysis")
              /\ k.ret.confidence \in 0..100

\* sendResponse calls made for the current event by its first n handlers
RECURSIVE Responses(_)
Responses(n) == IF n = 0 THEN 0 ELSE Len(tasks[n].sent) + Responses(n - 1)

\* C8: a request message to the service worker has its response callback
\* invoked exactly once: never twice, and once when its handling has ended.
C8_OneResponsePerRequest ==
    (\E t \in Tasks : tasks[t].ctx = "agent" /\ tasks[t].origin = "message") =>
        /\ Responses(MaxListeners) <= 1
        /\ (\A t \in Tasks : tasks[t].pc \in {"idle", "done"}) =>
              Responses(MaxListeners) = 1

\* the actions handleMessage of background.js has a case for
AgentActions ==
    {"getSettings", "updateSettings", "scanContent", "checkAPIStatus",
     "debugContextMenus", "takeScreenshot"}

\* the actions handleMessage of content.js has a case for
ObserverActions == {"analyzePage", "extractContent", "scanElement"}

\* the invocation handles a request whose action has no case
Unrecognized(k) ==
    /\ k.origin = "message"
    /\ k.req \notin (IF k.ctx = "agent" THEN AgentActions ELSE ObserverActions)

\* C9: a request with an unrecognized action is answered at once with
\* success:false and the error 'Unknown action', by the service worker and
\* by the content script, and the step that handles it changes nothing of
\* the worker's or the content script's state.
C9_UnknownActionRejected ==
    [][/\ \A t \in Tasks :
            Unrecognized(tasks'[t]) =>
               /\ tasks'[t].pc = "done"
               /\ tasks'[t].sent = <<[success |-> FALSE, error |-> "Unknown action"]>>
       /\ (\E t \in Tasks : tasks[t].pc = "idle" /\ Unrecognized(tasks'[t])) =>
            UNCHANGED <<agentVars, observer>>]_vars

C9_Witness ==
    \E t \in Tasks :
        /\ Unrecognized(tasks[t])
        /\ tasks[t].ctx = "agent"
        /\ tasks[t].sent = <<[success |-> FALSE, error |-> "Unknown action"]>>

\* the titles of the notifications that announce a scan has begun
ProgressTitles ==
    {"Screenshot Analysis", "Scanning Text", "Page Scan", "Link Scan", "Image Scan"}

\* the invocation ran one of the scan operations
IsScanOperation(k) ==
    \/ k.req \in {"scan-selected-text", "quick-scan", "scan-page", "scan-link",
                  "scan-image", "screenshot-analyze"}
    \/ k.req = "takeScreenshot" /\ "capture" \in Range(k.steps)

\* its notifications that announce an outcome
OutcomeNotes(k) == SelectSeq(k.notes, LAMBDA n : n.title \notin ProgressTitles)

\* C10: with settings.notifications true throughout, a scan operation that
\* has ended has created exactly one notification announcing its outcome.
C10_OneOutcomeNotification ==
    \A t \in Tasks :
        LET k == tasks[t]
        IN  /\ IsScanOperation(k) /\ Finished(k)
            /\ settings.notifications
            /\ \A i \in 1..Len(k.notes) : k.notes[i].created
            => Len(OutcomeNotes(k)) = 1

\* the showThreatNotification calls invocation t makes in the step
NewNotes(t) ==
    IF tasks[t].pc = "idle" THEN tasks'[t].notes
    ELSE SubSeq(tasks'[t].notes, Len(tasks[t].notes) + 1, Len(tasks'[t].notes))

\* C11: while settings.notifications is false, no step of a scan operation
\* creates a notification, whatever the scan's outcome.
C11_SuppressedWhileDisabled ==
    [][~settings.notifications =>
          \A t \in Tasks :
              IsScanOperation(tasks'[t]) =>
                 \A i \in 1..Len(NewNotes(t)) : ~NewNotes(t)[i].created]_vars

C11_Witness ==
    /\ ~settings.notifications
    /\ \E t \in Tasks :
          /\ IsScanOperation(tasks[t]) /\ Finished(tasks[t])
          /\ Len(OutcomeNotes(tasks[t])) = 1
          /\ \A i \in 1..Len(tasks[t].notes) : ~tasks[t].notes[i].created

\* C12: any two notifications the service worker has created have
\* different identifiers, so that none replaces another.
C12_DistinctNotificationIds ==
    \A t1, t2 \in Tasks :
        \A i \in 1..Len(tasks[t1].notes), j \in 1..Len(tasks[t2].notes) :
            /\ t1 # t2 \/ i # j
            /\ tasks[t1].notes[i].created /\ tasks[t2].notes[j].created
            => tasks[t1].notes[i].id # tasks[t2].notes[j].id

\* C13: a screenshot pipeline keeps the settings that were in force when
\* it began, whatever change reaches the worker while it waits for its
\* capture or its download: its remote call goes to the endpoint of then
\* and each of its notifications follows the flag of then.
C13_InFlightKeepsSettings ==
    \A t \in Tasks :
        LET k == tasks[t]
        IN  IsPipeline(k) /\ Has(k.began, "apiEndpoint") =>
              /\ "predict-image" \in Range(k.steps) => k.endpoint = k.began.apiEndpoint
              /\ \A i \in 1..Len(k.notes) : k.notes[i].created = k.began.notifications

\* a step in which chrome.storage.onChanged is delivered to the listener
\* of the worker
ChangeDelivered ==
    /\ changes # <<>>
    /\ changes' = Tail(changes)
    /\ listeners >= 1

\* C14: when the store reports a change, the settings of the worker take
\* the new value for exactly the keys of the change set and keep the other
\* fields; 'getSettings' answers with these settings; so once the popup
\* has saved an endpoint and a notifications flag and the change has been
\* delivered, 'getSettings' returns the saved endpoint and flag
C14_SavedSettingsReachAgent ==
    [][/\ ChangeDelivered =>
            /\ \A key \in SettingKeys :
                 settings'[key] = IF Has(Head(changes), key)
                                  THEN Head(changes)[key].newValue
                                  ELSE settings[key]
            /\ (changes' = <<>> /\ panel.pc = "ready" /\ panel.writes > 0
                  /\ syncStore = panel.settings)
                 => settings' = panel.settings
       /\ \A t \in Tasks :
            (tasks[t].pc = "idle" /\ tasks'[t].req = "getSettings")
              => tasks'[t].sent = <<[success |-> TRUE, settings |-> settings]>>
      ]_vars

\* C15: once a write to the store has been reported by the change
\* notification, the copy of the settings an initialized content script
\* holds and the copy an open popup holds equal the written values
C15_CopiesRefreshedOnChange ==
    [][(changes # <<>> /\ changes' = Tail(changes)) =>
          /\ (observer.pc = "ready" /\ Has(Head(changes), "notifications")) =>
                /\ Has(observer'.settings, "notifications")
                /\ observer'.settings.notifications
                      = Head(changes).notifications.newValue
          /\ panel.pc = "ready" =>
                \A key \in DOMAIN Head(changes) :
                    /\ Has(panel'.settings, key)
                    /\ panel'.settings[key] = Head(changes)[key].newValue
      ]_vars

\* C16: every write to chrome.storage.sync is the write of an
\* 'updateSettings' invocation of the worker; the popup and the content
\* script never write the store
C16_AgentIsTheOnlyWriter ==
    [][syncStore' # syncStore =>
          /\ \E t \in Tasks : /\ tasks[t].ctx = "agent"
                              /\ tasks[t].pc = "syncSet"
                              /\ tasks'[t].pc = "done"
          /\ panel.pc # "syncSet"
      ]_vars

\* a step in which `await loadSettings()` of a startup call settles
SettingsLoaded ==
    \E c \in InitCalls : initPc[c] = "loadSettings" /\ initPc'[c] = "done"

\* C17 as stated: at startup the endpoint is the loopback address when the
\* store has no endpoint, notifications are on when the store has no
\* notifications value, and a stored value is used unchanged when present
C17_StoredValuesUsedUnchanged ==
    [][SettingsLoaded =>
          /\ settings'.apiEndpoint =
                IF Has(syncStore, "apiEndpoint") THEN syncStore.apiEndpoint
                ELSE "http://127.0.0.1:5000"
          /\ settings'.notifications =
                IF Has(syncStore, "notifications") THEN syncStore.notifications
                ELSE TRUE
      ]_vars

\* C17: at startup, when the store can be read, the endpoint is the stored
\* one if the store holds a non-empty endpoint and the loopback address
\* otherwise, and notifications are on unless the store holds false; when
\* the store cannot be read the settings stay as they were
C17_LoadedWithDefaults ==
    [][SettingsLoaded =>
          \/ /\ settings'.apiEndpoint =
                   IF Has(syncStore, "apiEndpoint") /\ syncStore.apiEndpoint # ""
                   THEN syncStore.apiEndpoint ELSE "http://127.0.0.1:5000"
             /\ settings'.notifications =
                   IF Has(syncStore, "notifications") THEN syncStore.notifications
                   ELSE TRUE
          \/ settings' = settings
      ]_vars

\* the worker has loaded a store that holds an empty endpoint and
\* notifications off
C17_Witness ==
    /\ initPc["load"] = "done"
    /\ panel.writes = 0
    /\ syncStore = [apiEndpoint |-> "", notifications |-> FALSE]
    /\ settings = [apiEndpoint |-> "http://127.0.0.1:5000", notifications |-> FALSE]

\* the invocation is a health probe that has returned
ProbeFinished(k) ==
    k.ctx = "agent" /\ k.req = "checkAPIStatus" /\ Finished(k)

\* C18: a health probe returns 'connected' exactly when its request got a
\* successful response, 'error' exactly when it got a response that is not
\* successful, and 'disconnected' exactly when the request failed with no
\* response; a request by message is answered with that status
C18_ProbeStatusOfOutcome ==
    \A t \in Tasks :
        LET k == tasks[t]
        IN  ProbeFinished(k) =>
              /\ k.ret.status = "connected" <=> Outcome(k, "probe") = "ok"
              /\ k.ret.status = "error" <=> Outcome(k, "probe") = "status"
              /\ k.ret.status = "disconnected" <=> Outcome(k, "probe") = "rejected"
              /\ k.origin = "message" =>
                    k.sent = <<[success |-> TRUE, status |-> k.ret]>>

\* a probe whose request failed with no response has answered 'disconnected'
C18_Witness ==
    \E t \in Tasks :
        /\ ProbeFinished(tasks[t])
        /\ Outcome(tasks[t], "probe") = "rejected"
        /\ tasks[t].sent[1].status.status = "disconnected"

\* a step in which the health probe of invocation t returns
ProbeCompletes(t) ==
    tasks[t].pc = "probe" /\ tasks'[t].pc = "done"

\* C19: when a health probe returns, the badge shows no marker if the
\* status is 'connected' and the marker '!' if it is 'error' or
\* 'disconnected', whatever the badge showed before
C19_BadgeOfStatus ==
    [][\A t \in Tasks :
          ProbeCompletes(t) =>
             badge'.text = IF tasks'[t].ret.status = "connected" THEN "" ELSE "!"
      ]_vars

\* a probe has returned 'disconnected' and the badge shows the marker
C19_Witness ==
    \E t \in Tasks :
        /\ ProbeFinished(tasks[t])
        /\ tasks[t].ret.status = "disconnected"
        /\ badge.text = "!"

\* C20: when a health probe returns with the same outcome as the probe
\* that returned before it, it returns the same status, leaves the badge
\* as that probe left it and creates no notification
C20_SameOutcomeSameHealth ==
    [][\A t, u \in Tasks :
          (/\ t # u
           /\ ProbeCompletes(t)
           /\ ProbeFinished(tasks[u])
           /\ Outcome(tasks'[t], "probe") = Outcome(tasks[u], "probe")) =>
             /\ tasks'[t].ret.status = tasks[u].ret.status
             /\ badge' = badge
             /\ \A x \in Tasks : tasks'[x].notes = tasks[x].notes
      ]_vars

\* two probes in a row could not reach the service: both returned
\* 'disconnected', the second a millisecond or more after the first
C20_Witness ==
    /\ \A t \in Tasks :
         /\ ProbeFinished(tasks[t])
         /\ Outcome(tasks[t], "probe") = "rejected"
         /\ tasks[t].ret.status = "disconnected"
    /\ tasks[1].ret.timestamp # tasks[2].ret.timestamp
    /\ badge.text = "!"

\* the remote call of a scan of invocation k got an answer that is not ok
\* or no answer
RemoteScanFailed(k) ==
    \E step \in {"predict-text", "predict-image"} :
        Outcome(k, step) \in {"status", "rejected"}

\* C21: a scan of the worker whose remote call failed is followed by a
\* health probe of its own: once the invocation has ended it has issued
\* the probe request, apart from the probes of the interval timer
C21_FailedScanIsProbed ==
    \A t \in Tasks :
        LET k == tasks[t]
        IN  (k.ctx = "agent" /\ Finished(k) /\ RemoteScanFailed(k))
              => "probe" \in Range(k.steps)

\* the remote call scan(content, kind) is to issue for each kind
EndpointOfKind(type) ==
    CASE type = "text"  -> "predict-text"
      [] type = "image" -> "predict-image"
      [] type = "audio" -> "predict-audio"
      [] type = "video" -> "predict-video"

\* C22: a content scan of the worker issues the remote call of its kind:
\* text goes to /predict-text, image, audio and video to /predict-image,
\* /predict-audio and /predict-video; none of the four kinds ends in an
\* error raised before any call
C22_EveryKindIsRouted ==
    \A t \in Tasks :
        LET k == tasks[t]
        IN  (k.ctx = "agent" /\ k.req = "scanContent" /\ k.pc # "idle") =>
              /\ k.steps # <<>>
              /\ k.steps[1] = EndpointOfKind(k.arg.type)

\* the invocation is a 'scanContent' request for text that has ended
TextScanFinished(k) ==
    /\ k.ctx = "agent" /\ k.req = "scanContent" /\ k.origin = "message"
    /\ k.arg.type = "text" /\ Finished(k)

\* the messages of the errors that carry an HTTP status
StatusMessages == {"API Error: 404", "API Error: 500"}

\* C23: a content scan whose remote call got a response that is not ok
\* ends with the error 'API Error: <status>' of that response's status,
\* delivered as a failed response; a remote call that rejected with no
\* response ends with a failed response whose error is none of these
C23_ServiceErrorCarriesStatus ==
    \A t \in Tasks :
        LET k == tasks[t]
        IN  TextScanFinished(k) =>
              /\ Outcome(k, "predict-text") = "status" =>
                    /\ k.threw.status \in ErrorStatuses
                    /\ k.threw.message = (IF k.threw.status = 404
                                          THEN "API Error: 404" ELSE "API Error: 500")
                    /\ k.sent = <<[success |-> FALSE, error |-> k.threw.message]>>
              /\ Outcome(k, "predict-text") = "rejected" =>
                    /\ Len(k.sent) = 1
                    /\ ~k.sent[1].success
                    /\ k.sent[1].error \notin StatusMessages

\* a content scan was answered 404 and has delivered 'API Error: 404'
C23_Witness ==
    \E t \in Tasks :
        /\ TextScanFinished(tasks[t])
        /\ Outcome(tasks[t], "predict-text") = "status"
        /\ tasks[t].sent = <<[success |-> FALSE, error |-> "API Error: 404"]>>

\* the invocation scans content or the selected text through the service
IsContentScan(k) ==
    /\ k.ctx = "agent"
    /\ \/ k.origin = "message" /\ k.req = "scanContent"
       \/ k.origin = "menu" /\ k.req = "scan-selected-text"

\* the titles of the notifications of invocation k, in order
NoteTitles(k) == [i \in 1..Len(k.notes) |-> k.notes[i].title]

\* C24: a content scan or selected-text scan whose remote call failed ends
\* with an error outcome (a failed response with the error's message, or
\* the 'Scan Error' notification) and the keyword heuristic does not run
\* in its place: the invocation holds no heuristic findings, returns no
\* result, and does not write the last-scan cache
C24_NoHeuristicForFailedScan ==
    \A t \in Tasks :
        LET k == tasks[t]
        IN  (IsContentScan(k) /\ Finished(k) /\ RemoteScanFailed(k)) =>
              /\ k.threats = <<>>
              /\ k.ret = Undefined
              /\ "cacheScan" \notin Range(k.steps)
              /\ Has(k.threw, "message")
              /\ k.origin = "message" =>
                    k.sent = <<[success |-> FALSE, error |-> k.threw.message]>>
              /\ k.origin = "menu" =>
                    NoteTitles(k) = <<"Scanning Text", "Scan Error">>

\* a selected-text scan could not reach the service and has notified
\* 'Scan Error'
C24_Witness ==
    \E t \in Tasks :
        /\ IsContentScan(tasks[t]) /\ Finished(tasks[t])
        /\ tasks[t].origin = "menu"
        /\ Outcome(tasks[t], "predict-text") = "rejected"
        /\ NoteTitles(tasks[t]) = <<"Scanning Text", "Scan Error">>
        /\ quickKeywordScan(tasks[t].arg.selectionText) # <<>>

\* the popup has shown the results of a batch
BatchShown == panel.pc = "ready" /\ panel.files # <<>>

\* C25: when the popup has scanned a batch of n files its results list has
\* n entries, the i-th for the i-th file; an entry holds an error when the
\* scan of its file raised and the result of the scan otherwise, whatever
\* happened to the files before it; while the batch is scanned the list
\* holds one entry for each file already scanned
C25_OneEntryPerFile ==
    /\ Len(panel.results) <= Len(panel.files)
    /\ \A i \in 1..Len(panel.results) :
         LET entry == panel.results[i]
         IN  /\ entry.file = panel.files[i].name
             /\ Has(entry, "error") # Has(entry, "result")
             /\ scanFile(panel.files[i]) = "" =>
                    Has(entry, "error") /\ entry.error = "Unsupported file type"
             /\ Has(entry, "result") => entry.result \in FileResults
    /\ BatchShown => Len(panel.results) = Len(panel.files)

\* a batch of two files has been shown: the scan of the first raised a
\* service error and the second got its normal result
C25_Witness ==
    /\ BatchShown
    /\ Len(panel.files) = 2
    /\ Has(panel.results[1], "error")
    /\ panel.results[1].error = "API Error: 500 Internal Server Error"
    /\ Has(panel.results[2], "result")

\* the status displayFileResults shows for one file's result
statusText(result) ==
    IF Has(result, "is_spoofed") /\ result.is_spoofed = "spoofed" THEN "spoofed"
    ELSE IF Has(result, "prediction") /\ result.prediction = 1 THEN "threat"
    ELSE "safe"

\* the precedence of the statuses: spoofed > threat > safe
Severity(status) ==
    CASE status = "spoofed" -> 2
      [] status = "threat"  -> 1
      [] OTHER              -> 0

\* the per-file statuses of the entries of a batch that hold a result
FileStatuses(results) ==
    {statusText(results[i].result) :
        i \in {j \in 1..Len(results) : Has(results[j], "result")}}

\* C26: the overall status the popup shows for a batch is the most severe
\* of the statuses of its per-file results, with spoofed above threat
\* above safe; it is safe when no file has a result
C26_AggregateIsMaxSeverity ==
    BatchShown =>
        /\ panel.resultStatus \in {"safe", "threat", "spoofed"}
        /\ \A status \in FileStatuses(panel.results) :
              Severity(status) <= Severity(panel.resultStatus)
        /\ \/ panel.resultStatus \in FileStatuses(panel.results)
           \/ panel.resultStatus = "safe" /\ FileStatuses(panel.results) = {}

\* a batch with a spoofed file followed by a threat file is shown as
\* spoofed
C26_Witness ==
    /\ BatchShown
    /\ Len(panel.results) = 2
    /\ Has(panel.results[1], "result") /\ Has(panel.results[2], "result")
    /\ statusText(panel.results[1].result) = "spoofed"
    /\ statusText(panel.results[2].result) = "threat"
    /\ panel.resultStatus = "spoofed"

\* createContextMenus() has been called and none of its calls is pending
MenusSettled ==
    /\ \E c \in InitCalls : initPc[c] = "done"
    /\ menuJobs = 0
    /\ menuCallbacks = 0

\* C27: once every createContextMenus() call has run its clear and its
\* rebuild, in whatever order the clears and rebuilds of different calls
\* came, the registered menu is exactly the fixed set of fourteen entries,
\* every entry registered under its id once and every item under its
\* parent
C27_MenusAreTheFixedSet ==
    /\ MenusSettled =>
          /\ menus = MenuIds
          /\ Cardinality(menus) = Len(MenuOrder)
    /\ \A id \in menus : id \in MenuIds /\ (ParentId(id) # "" => ParentId(id) \in menus)

\* two clears ran before either rebuild: the first rebuild has registered
\* the full set and the second is still to run on it
C27_Witness ==
    /\ menuJobs = 0
    /\ menuCallbacks = 1
    /\ menus = MenuIds

(* ------------------------- keyword detector --------------------------- *)

\* the position of the first occurrence of keyword k in text s, compared
\* without case; 0 when it does not occur
FirstIndex(s, k) ==
    LET at == {i \in 1..(Len(s) - Len(k) + 1) :
                  SubSeq(ToLowerCase(s), i, i + Len(k) - 1) = ToLowerCase(k)}
    IN  IF at = {} THEN 0 ELSE CHOOSE i \in at : \A j \in at : i <= j

\* the keywords reported: each entry of `vocabulary` occurring in `text`
\* is reported once, nothing else is, and the reports are in the order of
\* the first occurrences in the text
InOccurrenceOrder(found, vocabulary, text) ==
    /\ Range(found) = {vocabulary[i] : i \in {j \in 1..Len(vocabulary) :
                                                FirstIndex(text, vocabulary[j]) > 0}}
    /\ \A i, j \in 1..Len(found) : i # j => found[i] # found[j]
    /\ \A i, j \in 1..Len(found) :
          i < j => FirstIndex(text, found[i]) <= FirstIndex(text, found[j])

\* the keywords of the 'suspicious_keyword' findings of a page analysis
KeywordsOf(threats) ==
    LET findings == SelectSeq(threats, LAMBDA f : f.type = "suspicious_keyword")
    IN  [i \in 1..Len(findings) |-> findings[i].description]

\* a quick scan of the worker ran its keyword detector on a selection
QuickScanned(k) ==
    /\ k.ctx = "agent" /\ k.req = "quick-scan" /\ Finished(k)
    /\ Len(Trim(k.arg.selectionText)) > 0

\* the content script analysed a page
PageAnalysed(k) ==
    k.ctx = "observer" /\ k.req = "analyzePage" /\ Finished(k)

\* C28: the keyword detector of the worker and the one of the content
\* script report one finding for each vocabulary entry that occurs in the
\* text, compared without case, and report them in the order of the
\* entries' first occurrences in the text
C28_KeywordsInOccurrenceOrder ==
    \A t \in Tasks :
        LET k == tasks[t]
        IN  /\ QuickScanned(k) =>
                 InOccurrenceOrder(k.threats, suspiciousKeywords, k.arg.selectionText)
            /\ (PageAnalysed(k) /\ k.page.text # <<>>) =>
                 InOccurrenceOrder(KeywordsOf(k.threats), observerKeywords, k.page.text)

(* ------------------------- urgency detector --------------------------- *)

\* the 'excessive_urgency' findings of a page analysis
UrgencyFindings(threats) ==
    SelectSeq(threats, LAMBDA f : f.type = "excessive_urgency")

\* one of the three families of urgency expressions has three or more
\* matches in the text
SomeFamilyOften(text) ==
    \E p \in 1..Len(urgencyPatterns) :
        MatchCount(ToLowerCase(text), urgencyPatterns[p], 1) >= 3

\* C29: a page analysis of the content script holds exactly one
\* 'excessive_urgency' finding, of severity high, when one of the three
\* families has three or more matches in the text, and none when every
\* family has two or fewer
C29_OneUrgencyFinding ==
    \A t \in Tasks :
        LET k == tasks[t]
        IN  (PageAnalysed(k) /\ k.page.text # <<>>) =>
              IF SomeFamilyOften(k.page.text)
              THEN UrgencyFindings(k.threats) = <<UrgencyFinding>>
              ELSE UrgencyFindings(k.threats) = <<>>

(* --------------------------- link detectors --------------------------- *)

\* the URL matches one of the known shortener and redirector patterns or
\* contains one of the four literals
Flagged(url) ==
    \/ \E i \in 1..Len(suspiciousPatterns) :
          Includes(ToLowerCase(url), suspiciousPatterns[i])
    \/ \E literal \in {str_suspicious, str_phishing, str_scam, str_malware} :
          Includes(url, literal)

\* the worker scanned a page that has no text and the single link `url`
PageWithLinkScanned(k, url) ==
    /\ k.ctx = "agent" /\ k.req = "scan-page" /\ Finished(k)
    /\ k.page = [text |-> <<>>, links |-> <<url>>]

\* C30: the three link detectors flag a URL exactly when it matches a
\* known pattern or contains one of the literals suspicious, phishing,
\* scam, malware, and so agree on every URL: the link scan of the worker
\* ('Suspicious Link' against 'Link Safe'), the page scan of the worker on
\* a page whose only content is the link ('Threats Detected' against
\* 'Page Safe'), and the page analysis of the content script (a
\* 'suspicious_link' finding or none)
C30_LinkDetectorsAgree ==
    \A t \in Tasks :
        LET k == tasks[t]
        IN  /\ (k.ctx = "agent" /\ k.req = "scan-link" /\ Finished(k)) =>
                 NoteTitles(k) = <<"Link Scan",
                                   IF Flagged(k.arg.linkUrl) THEN "Suspicious Link"
                                                             ELSE "Link Safe">>
            /\ \A url \in DetectUrls :
                 PageWithLinkScanned(k, url) =>
                    NoteTitles(k) = <<"Page Scan",
                                      IF Flagged(url) THEN "Threats Detected"
                                                      ELSE "Page Safe">>
            /\ (PageAnalysed(k) /\ Len(k.page.links) = 1) =>
                 (Flagged(k.page.links[1].href)
                    <=> \E i \in 1..Len(k.threats) : k.threats[i].type = "suspicious_link")

(* -------------------------- pipeline ordering -------------------------- *)

\* the place of the call `step` among the calls invocation k has awaited,
\* 0 if it has not awaited it
StepIndex(k, step) ==
    IF step \in Range(k.steps)
    THEN CHOOSE i \in 1..Len(k.steps) : k.steps[i] = step
    ELSE 0

\* the calls of the remote attempt proper: the image is made a blob, sent
\* to /predict-image, and the answer is parsed
RemoteSteps == {"toBlob", "predict-image", "json"}

\* C31: in a run of the screenshot pipeline every call starts after the
\* one before it has settled, the calls come in the order capture,
\* persist, remote attempt, local fallback, and the local fallback starts
\* only once the remote attempt has ended in a failure
C31_StepsInOrder ==
    \A t \in Tasks :
        LET k == tasks[t]
            order == <<"capture", "persist", "predict-image", "extract">>
        IN  IsPipeline(k) =>
              /\ Len(k.steps) - 1 <= Len(k.outcomes) /\ Len(k.outcomes) <= Len(k.steps)
              /\ \A i, j \in 1..Len(order) :
                    (i < j /\ order[j] \in Range(k.steps)) =>
                       /\ StepIndex(k, order[i]) > 0 \/ order[i] = "predict-image"
                       /\ StepIndex(k, order[i]) < StepIndex(k, order[j])
              /\ "extract" \in Range(k.steps) =>
                    \E s \in RemoteSteps : Outcome(k, s) \in {"status", "rejected"}

(* ------------------------------ no retry ------------------------------ *)

\* how many times invocation k has issued the call `step`
Issued(k, step) == Len(SelectSeq(k.steps, LAMBDA s : s = step))

FallbackAnalysed(k) ==
    IsPipeline(k) /\ Outcome(k, "extract") = "ok"

\* the text the local fallback scans: text + ' ' + title
FallbackText(k) == k.page.text \o <<" ">> \o k.page.title

\* C33: on the text the local fallback of the screenshot pipeline scans,
\* it reports the keywords the text analysis of the content script
\* reports, and it reports excessive urgency, a finding that is no
\* keyword, whenever that analysis does
C33_FallbackUsesObserverHeuristic ==
    \A t \in Tasks :
        LET k == tasks[t]
        IN  FallbackAnalysed(k) =>
              LET findings == analyzeTextThreats(FallbackText(k))
              IN  /\ {k.threats[i] : i \in 1..Len(k.threats)} \cap Range(suspiciousKeywords)
                        = Range(KeywordsOf(findings))
                  /\ UrgencyFindings(findings) # <<>> =>
                        \E i \in 1..Len(k.threats) :
                            k.threats[i] \notin Range(suspiciousKeywords)

(* --------------------------- inserted anchors ------------------------- *)

\* the A elements of a subtree: its root and its descendants
RECURSIVE AnchorsOf(_)
AnchorsOf(node) ==
    (IF node.tagName = "A" THEN {node} ELSE {})
        \cup UNION {AnchorsOf(node.children[i]) : i \in 1..Len(node.children)}

\* the mutation callback has run for invocation k
MutationHandled(k) ==
    k.ctx = "observer" /\ k.origin = "mutation" /\ Finished(k)

\* C34: every A element inserted into the page, as the inserted node or
\* inside an inserted subtree, is handed to the link detector, and when
\* the detector flags it the finding is surfaced: a warning is shown or
\* the finding is sent or kept, not dropped
C34_InsertedAnchorsAreChecked ==
    \A t \in Tasks :
        LET k == tasks[t]
        IN  MutationHandled(k) =>
              \A n \in 1..Len(k.arg.addedNodes) :
                  \A anchor \in AnchorsOf(k.arg.addedNodes[n]) :
                      /\ \E i \in 1..Len(k.page.links) : k.page.links[i].href = anchor.href
                      /\ Flagged(anchor.href) =>
                            \/ k.notes # <<>>
                            \/ k.sent # <<>>
                            \/ k.ret # Undefined

(* ------------------------ initialization, twice ----------------------- *)

\* both calls of initializeServiceWorker(), the one at load and the one of
\* chrome.runtime.onStartup, have run to their end
InitializedTwice == \A c \in InitCalls : initPc[c] = "done"

\* the invocations of the worker's handlers that run for the current event
Dispatched ==
    {t \in Tasks : tasks[t].ctx = "agent" /\ tasks[t].origin \in {"message", "menu"}}

\* C35: once the worker has loaded and chrome.runtime.onStartup has fired
\* too, there is one listener for messages, menu clicks and store changes,
\* so that an event runs its handler once, and one interval timer for the
\* health probe
C35_InitializationIsIdempotent ==
    InitializedTwice =>
        /\ listeners = 1
        /\ timers = 1
        /\ Cardinality(Dispatched) <= 1

(* ------------------- content script: one response --------------------- *)

\* the invocations of ContentAnalyzer.handleMessage that run for the
\* current message
ObserverHandling ==
    {t \in Tasks : tasks[t].ctx = "observer" /\ tasks[t].origin = "message"}

\* C36: a request message delivered to the content script runs
\* ContentAnalyzer.handleMessage once and has its response callback
\* invoked once: never twice, and once when the handling has ended
C36_ObserverAnswersOnce ==
    ObserverHandling # {} =>
        /\ Cardinality(ObserverHandling) = 1
        /\ Responses(MaxListeners) <= 1
        /\ (\A t \in Tasks : tasks[t].pc \in {"idle", "done"}) =>
              Responses(MaxListeners) = 1

(* ---------------- fallback only after a remote failure ---------------- *)

\* the notifications performBasicScreenshotAnalysis shows
HeuristicTitles ==
    {"Suspicious Content Detected",
     "Screenshot Saved & Basic Analysis Complete",
     "Screenshot Saved"}

\* C37: a run of the screenshot pipeline whose /predict-image call was
\* answered ok and parsed, and whose verdict was notified, never starts
\* the local fallback and shows none of its notifications, and it returns
\* the remote result, also when the write of lastScreenshotResult fails
C37_NoFallbackAfterRemoteSuccess ==
    \A t \in Tasks :
        LET k == tasks[t]
        IN  (IsPipeline(k) /\ Outcome(k, "json") = "ok") =>
              /\ "extract" \notin Range(k.steps)
              /\ Range(NoteTitles(k)) \cap HeuristicTitles = {}
              /\ Finished(k) => k.ret = RemoteResult(k.api)

(* -------------------------- overlapping probes ------------------------ *)

\* the health probes of the current round; TimerFired and Start fill the
\* slots from the first one on, so a probe in a higher slot was issued
\* later
Probes == {t \in Tasks : tasks[t].req = "checkAPIStatus"}

\* the probe issued last
LatestProbe == CHOOSE t \in Probes : \A u \in Probes : u <= t

\* C38: when probes have overlapped and all of them have completed, the
\* badge shows the outcome of the probe that was issued last, whichever
\* probe completed last
C38_LatestProbeWins ==
    (Cardinality(Probes) > 1 /\ \A t \in Probes : ProbeFinished(tasks[t])) =>
        badge = updateExtensionIcon(ProbeIcon(Outcome(tasks[LatestProbe], "probe")))

(* -------------------------- failed store write ------------------------ *)

\* objects a and b hold the same value under `key`
SameAt(a, b, key) == Has(a, key) /\ Has(b, key) /\ a[key] = b[key]

\* the write of the 'updateSettings' invocation t is rejected in this step
AgentWriteFails(t) ==
    /\ tasks[t].req = "updateSettings" /\ At(t, "syncSet")
    /\ Outcome(tasks'[t], "store") = "rejected"

\* the write of the popup's saveSettings settles in this step
PanelWriteSettles == panel.pc = "syncSet" /\ panel'.pc = "ready"

\* C39: when the store write of 'updateSettings' or of the popup's
\* saveSettings fails, the settings in memory are left as they were before
\* the request: for every key of the request, the context holds the value
\* it held before or a value the store holds
C39_FailedWriteKeepsSettings ==
    [][/\ \A t \in Tasks :
             AgentWriteFails(t) =>
                \A key \in DOMAIN tasks[t].arg.settings :
                    \/ SameAt(settings', tasks[t].began, key)
                    \/ SameAt(settings', syncStore', key)
       /\ PanelWriteSettles =>
             \A key \in DOMAIN panel'.settings :
                 \/ SameAt(panel'.settings, panel.previous, key)
                 \/ SameAt(panel'.settings, syncStore', key)
      ]_vars

(* ------------------------- batches of failures ------------------------ *)

\* C40: the popup does not show the overall status 'All files appear
\* safe' for a batch in which every file ended with an error and none has
\* a scan result
C40_FailedBatchIsNotSafe ==
    (BatchShown /\ \A i \in 1..Len(panel.results) : EntryFailed(panel.results[i])) =>
        panel.resultStatus # "safe"

=============================================================================
